---- MODULE Spec2Model ----
(***************************************************************************)
(* A model of the re-ranking and debiasing core of the music recommender:  *)
(*   - FairnessConstraints.apply_fairness_constraints (src/ml/debiasing.py) *)
(*   - ExplorationExploitationModel                    (src/ml/models.py)   *)
(*   - DebiasingPipeline.apply_full_debiasing          (src/ml/debiasing.py)*)
(*                                                                         *)
(* A track is a Python dict, modelled as a TLA+ record whose domain is the *)
(* set of keys the dict holds; dict.get(key, default) is Get.              *)
(***************************************************************************)
EXTENDS Integers, Sequences, FiniteSets, TLC

\* ------------------------------------------------------------------ bounds
\* longest candidate list handed to apply_fairness_constraints
MaxTracks == 4
\* largest max_recommendations handed to apply_fairness_constraints
MaxRecs == 4
\* longest feedback batch handed to update_exploration_rate
MaxBatch == 2
\* longest enumerated candidate pool handed to select_recommendations
MaxPool == 2
\* largest enumerated num_recommendations (10, the documented case, aside)
MaxNum == 2
\* longest run of consecutive high-rating batches that is counted
MaxHighs == 6
\* longest candidate list handed to apply_full_debiasing
MaxDebias == 3
\* longest candidate list handed to a single stage
MaxStage == 2
\* longest recommendation list handed to evaluate_recommendations
MaxEval == 2
\* most evaluate_recommendations calls on one evaluator
MaxEvaluate == 2
\* most record_user_feedback calls on one evaluator
MaxFeedback == 4
\* the days an evaluator is followed for
MaxDays == 31
\* most feedback, save and load calls of a session that saves its data
MaxSession == 6
\* most calls of one of two sessions that run side by side
MaxCalls == 2
\* most calls that write a collection (evaluations, feedback events, calls
\* of a tracker's own methods) before the summaries are read
MaxRecorded == 3

\* ------------------------------------------------------- Python primitives
\* the empty dict {} (a record with no field)
EmptyDict == [k \in {} |-> 0]

\* dict.get(key, default)
Get(d, key, default) == IF key \in DOMAIN d THEN d[key] ELSE default

\* seq[:n] for n >= 0
Take(seq, n) == SubSeq(seq, 1, IF n < Len(seq) THEN n ELSE Len(seq))

Max(a, b) == IF a >= b THEN a ELSE b

Min(a, b) == IF a <= b THEN a ELSE b

\* the list of the items f[1], ..., f[n], each computed once
ListOf(f) == f @@ <<>>

\* the elements of a list, as a set
Range(seq) == {seq[i] : i \in 1..Len(seq)}

\* list.sort(key=..., reverse=True) / sorted(..., reverse=True) are stable:
\* one insertion puts x behind every element whose key is >= its own
RECURSIVE InsertDesc(_, _, _, _)
InsertDesc(sorted, x, kx, keyOf) ==
    IF sorted = <<>> THEN <<x>>
    ELSE IF keyOf[Head(sorted)] >= kx
         THEN <<Head(sorted)>> \o InsertDesc(Tail(sorted), x, kx, keyOf)
         ELSE <<x>> \o sorted

\* the indices 1..Len(keys) in stable descending order of keys[i]
RECURSIVE SortIdxDesc(_, _)
SortIdxDesc(keys, n) ==
    IF n = 0 THEN <<>>
    ELSE InsertDesc(SortIdxDesc(keys, n - 1), n, keys[n], keys)

\* seq sorted by descending keys[i] (keys[i] is the key of seq[i]), stable
SortDesc(seq, keys) ==
    LET idx == SortIdxDesc(keys, Len(seq))
    IN  [i \in 1..Len(seq) |-> seq[idx[i]]]

\* ---------------------------------------------------------------- tracks
TrackIds == <<"t1", "t2", "t3", "t4", "t5", "t6">>

\* the artists field of a track: a list of artist dicts, first is primary
ArtistsOf(a) == <<[id |-> a]>>

\* track.get('artists', [{}])[0] raises IndexError on an empty list
ArtistsRaises(track) == Get(track, "artists", <<EmptyDict>>) = <<>>

\* track.get('artists', [{}])[0].get('id', 'unknown')
PrimaryArtist(track) ==
    Get(Get(track, "artists", <<EmptyDict>>)[1], "id", "unknown")

\* track.get('recommendation_score', 0), in hundredths
RecScore(track) == Get(track, "recommendation_score", 0)

\* ------------------------------------------------ insertion-ordered dicts
DictHas(d, key) == \E i \in 1..Len(d) : d[i].k = key

DictGet(d, key, default) ==
    IF DictHas(d, key)
    THEN d[CHOOSE i \in 1..Len(d) : d[i].k = key].v
    ELSE default

\* d[key] = val
DictPut(d, key, val) ==
    IF DictHas(d, key)
    THEN [i \in 1..Len(d) |-> IF d[i].k = key THEN [k |-> key, v |-> val] ELSE d[i]]
    ELSE Append(d, [k |-> key, v |-> val])

\* ------------------------------------------------- IEEE-754 double values
\* Python floats are doubles.  A non-negative double is held exactly as
\* n / 2^57 with n = h * 2^38 + m * 2^19 + l in three 19-bit limbs (every
\* double in [2^-5, 2^10) is such a multiple), and each operation rounds to
\* nearest, ties to even, at 53 significant bits as the hardware does.
Limb == 2^19

\* the limbs carried into range
Norm(h, m, l) ==
    LET m1 == m + (l \div Limb)
    IN  [h |-> h + (m1 \div Limb), m |-> m1 % Limb, l |-> l % Limb]

FZero == [h |-> 0, m |-> 0, l |-> 0]

\* the double of a small non-negative int
FromInt(n) == [h |-> n * Limb, m |-> 0, l |-> 0]

\* x < y, x <= y
FLess(x, y) ==
    \/ x.h < y.h
    \/ x.h = y.h /\ x.m < y.m
    \/ x.h = y.h /\ x.m = y.m /\ x.l < y.l

FLeq(x, y) == ~FLess(y, x)

\* the spacing of doubles at this magnitude, in units of 2^-57
RECURSIVE Ulp(_)
Ulp(h) == IF h < 32768 THEN 1 ELSE 2 * Ulp(h \div 2)

\* x plus a fraction of one unit (frac: 0 none, 1 below half, 2 half, 3 above
\* half), rounded to the nearest double, ties to even
Round(x, frac) ==
    LET u == Ulp(x.h)
        r == x.l % u
        odd == (x.l \div u) % 2 = 1
        up == IF u = 1
              THEN frac = 3 \/ (frac = 2 /\ odd)
              ELSE \/ 2 * r > u
                   \/ 2 * r = u /\ (frac # 0 \/ odd)
    IN  Norm(x.h, x.m, x.l - r + (IF up THEN u ELSE 0))

\* x + y
FAdd(x, y) == Round(Norm(x.h + y.h, x.m + y.m, x.l + y.l), 0)

\* x - y for x >= y
FSub(x, y) == Round(Norm(x.h - y.h, x.m - y.m, x.l - y.l), 0)

\* n * x for a small int n >= 0
FMulInt(n, x) == Round(Norm(n * x.h, n * x.m, n * x.l), 0)

\* x / k for a small int k >= 1
FDivInt(x, k) ==
    LET qh == x.h \div k
        r1 == (x.h % k) * Limb + x.m
        qm == r1 \div k
        r2 == (r1 % k) * Limb + x.l
        ql == r2 \div k
        rem == r2 % k
        frac == IF rem = 0 THEN 0
                ELSE IF 2 * rem < k THEN 1
                ELSE IF 2 * rem = k THEN 2 ELSE 3
    IN  Round([h |-> qh, m |-> qm, l |-> ql], frac)

\* int(x) for x >= 0: 2^57 units make one
FFloor(x) == x.h \div Limb

FMin(x, y) == IF FLess(y, x) THEN y ELSE x

FMax(x, y) == IF FLess(x, y) THEN y ELSE x

\* the double a decimal literal c/100 denotes (c = 0 or c >= 4)
Dec(c) == FDivInt(FromInt(c), 100)

\* ------------------------------------- IEEE-754 doubles of any magnitude
\* The scores of the pipeline and of the exploration ranking are doubles
\* too, some of them small (a penalty of 0.0025).  A double there is held as
\* [e, m]: m its 53-bit significand in four limbs of 14 bits, lowest first,
\* e the exponent of its leading bit; the value is m * 2^(e - 52).  Zero has
\* the significand 0 and an exponent below every other.  The values are
\* non-negative.  Each operation computes the exact result in limbs and
\* rounds it to nearest, ties to even.
WLimb == 2^14

DZero == [e |-> 0 - 2000, m |-> <<0, 0, 0, 0>>]

\* the limbs of a number carried into range, lowest first
RECURSIVE Carried(_, _)
Carried(s, c) ==
    IF s = <<>>
    THEN IF c = 0 THEN <<>> ELSE <<c % WLimb>> \o Carried(<<>>, c \div WLimb)
    ELSE LET t == Head(s) + c
         IN  <<t % WLimb>> \o Carried(Tail(s), t \div WLimb)

\* the number without its leading zero limbs
RECURSIVE Trimmed(_)
Trimmed(s) ==
    IF s # <<>> /\ s[Len(s)] = 0 THEN Trimmed(SubSeq(s, 1, Len(s) - 1)) ELSE s

\* how many bits the limb v has
RECURSIVE BitLen(_)
BitLen(v) == IF v = 0 THEN 0 ELSE 1 + BitLen(v \div 2)

\* the limb at place i of s, 0 beyond its length
LimbAt(s, i) == IF i >= 1 /\ i <= Len(s) THEN s[i] ELSE 0

\* the number times 2^(14 * q + r), r < 14
ShiftedLeft(s, q, r) ==
    Carried([i \in 1..(Len(s) + q) |->
                IF i <= q THEN 0 ELSE s[i - q] * (2^r)], 0)

\* rounding to nearest, ties to even: is the significand, the limbs of al
\* above place drop, to be raised by one for the limbs it leaves out
RoundsUp(al, drop) ==
    \/ 2 * al[drop] > WLimb
    \/ /\ 2 * al[drop] = WLimb
       /\ \/ \E i \in 1..(drop - 1) : al[i] # 0
          \/ al[drop + 1] % 2 = 1

\* the double of the significand sig (53 bits, or 2^53 after a carry) and
\* the exponent exp
Packed(sig, exp) ==
    IF sig[4] = 2048
    THEN [e |-> exp + 1, m |-> <<0, 0, 0, 1024>>]
    ELSE [e |-> exp, m |-> sig]

\* the double of the number al, whose highest bit is bit 53 of the limbs
\* above place drop
RoundedAt(al, drop, exp) ==
    Packed(Carried(<<al[drop + 1] + (IF RoundsUp(al, drop) THEN 1 ELSE 0),
                     al[drop + 2], al[drop + 3], al[drop + 4]>>, 0),
           exp)

\* the number al with its highest bit aligned, rounded
Aligned(al, exp) == RoundedAt(al, Len(al) - 4, exp)

\* the double of the number wide of the given number of bits, times 2^(k - 56)
RoundedBits(wide, bits, k) ==
    Aligned(Trimmed(ShiftedLeft(wide, 0, (53 - bits) % 14)), k - 56 + bits - 1)

\* the double of the number wide times 2^(k - 56)
RoundedWide(wide, k) ==
    IF wide = <<>> THEN DZero
    ELSE RoundedBits(wide, 14 * (Len(wide) - 1) + BitLen(wide[Len(wide)]), k)

\* the double nearest to n * 2^k, ties to even, for a number n in limbs
DRound(n, k) == RoundedWide(Trimmed(ShiftedLeft(n, 4, 0)), k)

\* the double of a small non-negative int
DInt(n) == DRound(Carried(<<n>>, 0), 0)

\* x < y, x <= y
DLess(x, y) ==
    \/ x.e < y.e
    \/ /\ x.e = y.e
       /\ \E i \in 1..4 :
              /\ x.m[i] < y.m[i]
              /\ \A j \in (i + 1)..4 : x.m[j] = y.m[j]

DLeq(x, y) == ~DLess(y, x)

\* x * y
DMul(x, y) ==
    IF x = DZero \/ y = DZero THEN DZero
    ELSE DRound(Carried([k \in 1..7 |->
                    LET Term(i) == IF k + 1 - i >= 1 /\ k + 1 - i <= 4
                                   THEN x.m[i] * y.m[k + 1 - i] ELSE 0
                    IN  Term(1) + Term(2) + Term(3) + Term(4)], 0),
                (x.e - 52) + (y.e - 52))

\* the limbs xs and the limbs of y added (sign 1) or taken away (sign -1)
LimbSum(xs, y, sign) ==
    DRound(Carried([i \in 1..Len(xs) |-> xs[i] + sign * LimbAt(y.m, i)], 0),
           y.e - 52)

\* x + y (sign 1) or x - y (sign -1) of doubles x >= y whose exponents are d
\* apart
SumAt(x, y, sign, d) ==
    IF d > 56 THEN x
    ELSE LimbSum(ShiftedLeft(x.m, d \div 14, d % 14), y, sign)

\* the exact x + y (sign 1) or x - y (sign -1) of doubles x >= y, rounded
DSum(x, y, sign) == SumAt(x, y, sign, x.e - y.e)

\* x + y
DAdd(x, y) == IF DLess(x, y) THEN DSum(y, x, 1) ELSE DSum(x, y, 1)

\* x - y for x >= y
DSub(x, y) == DSum(x, y, 0 - 1)

\* the limbs of the quotient of the number s by k, highest first, after the
\* remainder r of the limbs above, with the remainder left as last element
RECURSIVE Quotient(_, _, _)
Quotient(s, k, r) ==
    IF s = <<>> THEN <<r>>
    ELSE LET t == r * WLimb + s[Len(s)]
         IN  <<t \div k>> \o Quotient(SubSeq(s, 1, Len(s) - 1), k, t % k)

\* the quotient q (highest limb first, the remainder last) of n limbs, twice,
\* with a last bit that tells a remainder, rounded
QuotientRounded(q, n, exp) ==
    DRound(Carried([i \in 1..n |->
                       2 * q[n + 1 - i]
                       + (IF i = 1 /\ q[n + 1] # 0 THEN 1 ELSE 0)], 0),
           exp)

\* the quotient q rounded
QuotientDouble(q, exp) == QuotientRounded(q, Len(q) - 1, exp)

\* x / k for an int k, 1 <= k < 2^14
DDivInt(x, k) ==
    IF x = DZero THEN DZero
    ELSE QuotientDouble(Quotient(ShiftedLeft(x.m, 2, 0), k, 0), x.e - 52 - 28 - 1)

\* the double a decimal literal c / k denotes (k a power of ten)
DLit(c, k) == DDivInt(DInt(c), k)

\* for each key how many of the keys are below it: an int that orders as
\* the doubles do
DRanks(keys) ==
    LET ks == ListOf(keys)
    IN  [i \in 1..Len(ks) |->
            Cardinality({j \in 1..Len(ks) : DLess(ks[j], ks[i])})]

VARIABLES
    tracks,                 \* fairness: the list handed to the call
    max_recommendations,    \* fairness: the call's max_recommendations
    artist_tracks,          \* fairness: artist id -> its remaining tracks
    artist_counts,          \* fairness: artist id -> tracks selected
    max_tracks_per_artist,  \* fairness: the per-artist cap
    selected_tracks,        \* fairness: the result being built
    fresult,                \* fairness: the returned list
    fraised,                \* fairness: the except branch was taken
    fpc,                    \* fairness: "call", "loop" or "done"
    exploration_rate,       \* selector: self.exploration_rate, a double
    exploration_history,    \* selector: self.exploration_history
    eop,                    \* selector: "init" once built, "update" or "select"
                            \* while the caller holds that call's outcome,
                            \* "idle" between calls
    efeedback,              \* selector: the last update's user_feedback
    erate_before,           \* selector: exploration_rate before the last update
    epools,                 \* selector: the last select's candidates and count
    eresult,                \* selector: the last select's returned list
    ehighs,                 \* selector: updates so far, when the selector was built
                            \* with the default rate and every update batch had
                            \* exploration ratings of mean 0.9; -1 otherwise
    user_history,           \* pipeline: novelty_promotion.user_history
    dop,                    \* pipeline: "init" once built, "call" while the caller
                            \* holds the outcome of a call, "idle" between calls
    dtracks,                \* pipeline: the list handed to the last call
    dhistory,               \* pipeline: the user_history argument of the last call
    dresult,                \* pipeline: the list the last call returned
    dstage,                 \* pipeline: the method the last call was made to
    dquota,                 \* pipeline: the quota map of an
                            \* apply_representation_quota call
    dstrength,              \* pipeline: the penalty_strength of the last
                            \* apply_popularity_penalty call, a double
    now,                    \* evaluator: what datetime.now() reads, in days
    metrics_history,        \* evaluator: self.metrics_history
    user_feedback,          \* evaluator: self.user_feedback
    feedback_ids,           \* evaluator: which dict object each entry of
                            \* self.user_feedback is (equal ids: one object)
    diversity_history,      \* evaluator: diversity_tracker.diversity_history
    novelty_history,        \* evaluator: novelty_tracker.novelty_history
    artist_diversity_history,   \* evaluator: of the diversity tracker
    genre_diversity_history,    \* evaluator: of the diversity tracker
    artist_novelty_history,     \* evaluator: of the novelty tracker
    track_novelty_history,      \* evaluator: of the novelty tracker
    satisfaction_history,   \* evaluator: satisfaction_tracker.satisfaction_history
    rating_distribution,    \* evaluator: satisfaction_tracker.rating_distribution
    feedback_analysis,      \* evaluator: satisfaction_tracker.feedback_analysis
    held,                   \* evaluator: for each list of the trackers, the
                            \* list object of the caller that it is (load_data
                            \* keeps the lists it is given), 0 for a list the
                            \* tracker built; for feedback_analysis, by key
    caller_lists,           \* evaluator: the list objects the caller has built
                            \* for the data it hands to load_data, by number
    vop,                    \* evaluator: "init" once built, the method's name
                            \* while the caller holds a call's outcome, "idle"
                            \* between calls
    vargs,                  \* evaluator: the arguments of the last call
    vresult,                \* evaluator: what the last call returned
    vcount,                 \* evaluator: calls made so far, by method
    vfile,                  \* evaluator: the evaluation data file on disk
    heap,                   \* sessions: the list objects built so far, by
                            \* address; a user_feedback list holds the dict
                            \* objects it was handed
    sessions,               \* sessions: the components each session owns, their
                            \* list attributes as addresses of the heap
    slog,                   \* sessions: the calls each session has made
    threads,                \* threads: where each of the threads that update
                            \* one selector is in update_exploration_rate, and
                            \* what it has read
    rate0                   \* threads: the rate before the threads started

fvars == <<tracks, max_recommendations, artist_tracks, artist_counts,
           max_tracks_per_artist, selected_tracks, fresult, fraised, fpc>>

evars == <<exploration_rate, exploration_history, eop, efeedback, erate_before,
           epools, eresult, ehighs>>

dvars == <<user_history, dop, dtracks, dhistory, dresult, dstage, dquota,
           dstrength>>

\* the lists of the trackers that only load_data writes
diversity_lists == <<artist_diversity_history, genre_diversity_history>>

novelty_lists == <<artist_novelty_history, track_novelty_history>>

\* which lists of the trackers are lists of the caller, and those lists
holdings == <<held, caller_lists>>

vvars == <<now, metrics_history, user_feedback, feedback_ids, diversity_history,
           novelty_history, diversity_lists, novelty_lists, holdings,
           satisfaction_history, rating_distribution, feedback_analysis, vop,
           vargs, vresult, vcount,
           vfile>>

cvars == <<heap, sessions, slog, threads, rate0>>

vars == <<fvars, evars, dvars, vvars, cvars>>

\* debiasing.py line 51: the default penalty_strength 0.3
DefaultStrength == DLit(3, 10)

\* debiasing.py: the user_history argument None (a list is [list |-> h])
NoneArg == [none |-> TRUE]

\* helpers.py lines 48-50: no file at the path load_data is given
NoFile == [missing |-> TRUE]

\* debiasing.py lines 353-358 and 205-208: a pipeline as constructed
PipelineIdle ==
    /\ user_history = <<>>
    /\ dop = "init"
    /\ dtracks = <<>>
    /\ dhistory = NoneArg
    /\ dresult = <<>>
    /\ dstage = "none"
    /\ dquota = <<>>
    /\ dstrength = DefaultStrength

\* the lists of the trackers
TrackerLists ==
    <<"diversity_history", "artist_diversity_history",
      "genre_diversity_history", "novelty_history", "artist_novelty_history",
      "track_novelty_history", "satisfaction_history">>

\* evaluation.py lines 247-249, 353-355, 457-459: every list of the trackers
\* is one the tracker built
NoneHeld == [name \in Range(TrackerLists) |-> 0] @@ [feedback_analysis |-> <<>>]

\* evaluation.py lines 21-27, 245-249, 351-355, 455-459: an evaluator as
\* constructed, with its three trackers
EvaluatorBuilt ==
    /\ now = 0
    /\ metrics_history = <<>>
    /\ user_feedback = <<>>
    /\ feedback_ids = <<>>
    /\ diversity_history = <<>>
    /\ novelty_history = <<>>
    /\ artist_diversity_history = <<>>
    /\ genre_diversity_history = <<>>
    /\ artist_novelty_history = <<>>
    /\ track_novelty_history = <<>>
    /\ satisfaction_history = <<>>
    /\ rating_distribution = <<>>
    /\ feedback_analysis = <<>>
    /\ held = NoneHeld
    /\ vop = "init"
    /\ vargs = <<>>
    /\ vresult = <<>>
    /\ vcount = [evaluate |-> 0, feedback |-> 0, save |-> 0, load |-> 0,
                 tracker |-> 0]
    /\ vfile = NoFile

\* an evaluator as constructed whose caller has built no list for load_data
EvaluatorIdle == EvaluatorBuilt /\ caller_lists = <<>>

\* no session has been built and no thread runs
NoConcurrency ==
    /\ heap = <<>>
    /\ sessions = <<>>
    /\ slog = <<>>
    /\ threads = <<>>
    /\ rate0 = FZero

\* ------------------------------------------- ExplorationExploitationModel
\* ratings of feedback events, in hundredths
Ratings == {10, 30, 70, 90}

\* feedback events: flagged or not, and events with a key missing
FeedbackEvents ==
    {[is_exploration |-> b, rating |-> Dec(r)] : b \in BOOLEAN, r \in Ratings}
    \cup {[rating |-> Dec(90)], [is_exploration |-> TRUE]}

FeedbackBatches == UNION {[1..n -> FeedbackEvents] : n \in 0..MaxBatch}

\* lines 449-453: the ratings of the events flagged is_exploration, in order
RECURSIVE ExplorationSatisfaction(_)
ExplorationSatisfaction(fb) ==
    IF fb = <<>> THEN <<>>
    ELSE (IF Get(Head(fb), "is_exploration", FALSE)
          THEN <<Get(Head(fb), "rating", Dec(50))>> ELSE <<>>)
         \o ExplorationSatisfaction(Tail(fb))

\* numpy's sum of fewer than 8 doubles: added in order
RECURSIVE FSum(_)
FSum(xs) ==
    IF xs = <<>> THEN FZero
    ELSE FAdd(FSum(SubSeq(xs, 1, Len(xs) - 1)), xs[Len(xs)])

\* line 456: np.mean of a non-empty list
FMean(xs) == FDivInt(FSum(xs), Len(xs))

\* a raise without the cap
RaisedRateUncapped(rate) == FAdd(rate, Dec(5))

\* line 461: min(0.5, rate + 0.05)
RaisedRate(rate) == FMin(Dec(50), FAdd(rate, Dec(5)))

\* line 464: max(0.1, rate - 0.05); the difference is negative below 0.05
LoweredRate(rate) ==
    IF FLess(rate, Dec(5)) THEN Dec(10) ELSE FMax(Dec(10), FSub(rate, Dec(5)))

\* an update whose thresholds are not strict
UpdatedRateNonStrict(rate, fb) ==
    LET sat == ExplorationSatisfaction(fb)
    IN  IF fb = <<>> \/ sat = <<>> THEN rate
        ELSE LET avg == FMean(sat)
             IN  IF FLeq(Dec(70), avg) THEN RaisedRate(rate)
                 ELSE IF FLeq(avg, Dec(30)) THEN LoweredRate(rate)
                 ELSE rate

\* an update that treats a batch without exploration events as a low rating
UpdatedRateEmptyLowers(rate, fb) ==
    LET sat == ExplorationSatisfaction(fb)
    IN  IF fb = <<>> THEN rate
        ELSE IF sat = <<>> THEN LoweredRate(rate)
        ELSE LET avg == FMean(sat)
             IN  IF FLess(Dec(70), avg) THEN RaisedRate(rate)
                 ELSE IF FLess(avg, Dec(30)) THEN LoweredRate(rate)
                 ELSE rate

\* lines 445-464: the rate update_exploration_rate leaves
UpdatedRate(rate, fb) ==
    LET sat == ExplorationSatisfaction(fb)
    IN  IF fb = <<>> \/ sat = <<>> THEN rate
        ELSE LET avg == FMean(sat)
             IN  IF FLess(Dec(70), avg) THEN RaisedRate(rate)
                 ELSE IF FLess(avg, Dec(30)) THEN LoweredRate(rate)
                 ELSE rate

\* the batch's exploration ratings average exactly 0.9
HighBatch(fb) ==
    /\ ExplorationSatisfaction(fb) # <<>>
    /\ FMean(ExplorationSatisfaction(fb)) = Dec(90)

\* exploitation candidates: a relevance score, in hundredths
ExploitShapes == {[recommendation_score |-> s] : s \in {50, 90}}

\* exploration candidates: with or without a novelty score, a popularity;
\* the last two have the same score 0.276 in decimals and, in doubles, the
\* scores 0.276 and 0.27599999999999997
ExploreShapes ==
    {[popularity |-> 20], [popularity |-> 90, scores |-> [novelty |-> 9]],
     [popularity |-> 78, scores |-> [novelty |-> 3]],
     [popularity |-> 8, scores |-> [novelty |-> 0]]}

\* the list l with ids from the prefix pre
WithPoolIds(l, pre) == [i \in 1..Len(l) |-> [id |-> <<pre, i>>] @@ l[i]]

\* pools large enough for ten recommendations at any rate, of candidates
\* that are equal to one another
BigExploit == [i \in 1..10 |-> [recommendation_score |-> 50]]

BigExplore == [i \in 1..6 |-> [popularity |-> 20]]

ExploitPools ==
    UNION {{WithPoolIds(l, "x") : l \in [1..n -> ExploitShapes]} : n \in 0..MaxPool}

ExplorePools ==
    UNION {{WithPoolIds(l, "n") : l \in [1..n -> ExploreShapes]} : n \in 0..MaxPool}

\* the calls of select_recommendations: pools of candidates with ids and a
\* small num_recommendations, and ten recommendations from the large pools
SelectArgs ==
    {<<exploit, explore, n>> :
        exploit \in ExploitPools, explore \in ExplorePools, n \in 0..MaxNum}
    \cup {<<exploit, explore, 10>> :
             exploit \in {<<>>, BigExploit}, explore \in {<<>>, BigExplore}}

\* the split with the product rounded up
NumExplorationCeil(n, rate) ==
    LET p == FMulInt(n, rate)
    IN  IF p = FromInt(FFloor(p)) THEN FFloor(p) ELSE FFloor(p) + 1

\* line 393: int(num_recommendations * self.exploration_rate)
NumExploration(n, rate) == FFloor(FMulInt(n, rate))

\* lines 397-401: the top num_exploitation candidates by recommendation_score
ExploitationSelected(cands, num) ==
    Take(SortDesc(cands, [i \in 1..Len(cands) |-> RecScore(cands[i])]), num)

\* lines 427-434: novelty_score * 0.7 + (1.0 - popularity / 100.0) * 0.3 as a
\* double, for a novelty score of novelty tenths and a popularity of 0..100
DiversityScoreAt(novelty, popularity) ==
    LET novelty_score == DLit(novelty, 10)
        popularity_penalty == DSub(DInt(1), DDivInt(DInt(popularity), 100))
    IN  DAdd(DMul(novelty_score, DLit(7, 10)),
             DMul(popularity_penalty, DLit(3, 10)))

\* the scores of the novelty scores (in tenths) and popularities the
\* exploration candidates below carry, each computed once
DiversityScores ==
    [np \in {<<5, 20>>, <<9, 90>>, <<3, 78>>, <<0, 8>>} |->
        DiversityScoreAt(np[1], np[2])] @@ <<>>

\* lines 424-435: the diversity score of a candidate; it holds its novelty in
\* tenths (0.5 when absent) and its popularity as an int (50 when absent)
DiversityScore(c) ==
    LET np == <<Get(Get(c, "scores", EmptyDict), "novelty", 5),
                Get(c, "popularity", 50)>>
    IN  IF np \in DOMAIN DiversityScores THEN DiversityScores[np]
        ELSE DiversityScoreAt(np[1], np[2])

\* an exploration selection that keeps the input order
SelectExplorationUnsorted(cands, num) == Take(cands, num)

\* lines 418-441: _select_exploration_candidates
SelectExplorationCandidates(cands, num) ==
    IF Len(cands) <= num THEN cands
    ELSE Take(SortDesc(cands,
                       DRanks([i \in 1..Len(cands) |-> DiversityScore(cands[i])])),
              num)

\* np.random.shuffle: the orders the call may leave, every list that holds
\* each item as often as l does
ShuffleOutcomes(l) ==
    LET Times(q, v) == Cardinality({i \in 1..Len(l) : q[i] = v})
    IN  {q \in [1..Len(l) -> Range(l)] :
            \A v \in Range(l) : Times(q, v) = Times(l, v)}

\* lines 381-384: ExplorationExploitationModel(exploration_rate), with the
\* default 0.3, a rate above the documented range and one below it
InitialRates == {Dec(30), Dec(60), Dec(5)}

\* the allocator of a model that only runs the selector
FairIdle ==
    /\ tracks = <<>>
    /\ max_recommendations = 0
    /\ artist_tracks = <<>>
    /\ artist_counts = <<>>
    /\ max_tracks_per_artist = 0
    /\ selected_tracks = <<>>
    /\ fresult = <<>>
    /\ fraised = FALSE
    /\ fpc = "done"

NoPools == [exploit |-> <<>>, explore |-> <<>>, n |-> 0]

ExploreInit ==
    /\ EvaluatorIdle
    /\ NoConcurrency
    /\ FairIdle
    /\ PipelineIdle
    /\ exploration_rate \in InitialRates
    /\ exploration_history = <<>>
    /\ eop = "init"
    /\ efeedback = <<>>
    /\ erate_before = exploration_rate
    /\ epools = NoPools
    /\ eresult = <<>>
    /\ ehighs = IF exploration_rate = Dec(30) THEN 0 ELSE -1

\* the selector of a model that only runs the fairness allocator
SelectorIdle ==
    /\ exploration_rate = Dec(30)
    /\ exploration_history = <<>>
    /\ eop = "init"
    /\ efeedback = <<>>
    /\ erate_before = Dec(30)
    /\ epools = NoPools
    /\ eresult = <<>>
    /\ ehighs = 0

\* lines 443-464: update_exploration_rate(user_feedback)
UpdateExplorationRate(fb) ==
    /\ eop \in {"init", "idle"}
    /\ exploration_rate' = UpdatedRate(exploration_rate, fb)
    /\ erate_before' = exploration_rate
    /\ efeedback' = fb
    /\ eop' = "update"
    /\ ehighs' = IF ehighs >= 0 /\ ehighs < MaxHighs /\ HighBatch(fb)
                 THEN ehighs + 1 ELSE -1
    /\ UNCHANGED <<exploration_history, epools, eresult>>

\* lines 386-412: select_recommendations(exploitation_candidates,
\* exploration_candidates, num_recommendations); no statement of the try block
\* raises on candidates that are dicts with numeric fields
SelectRecommendations(exploit, explore, n) ==
    LET num_exploration == NumExploration(n, exploration_rate)
        num_exploitation == n - num_exploration
        all_recommendations ==
            ExploitationSelected(exploit, num_exploitation)
            \o SelectExplorationCandidates(explore, num_exploration)
    IN  /\ eop \in {"init", "idle"}
        /\ eresult' \in ShuffleOutcomes(all_recommendations)
        /\ epools' = [exploit |-> exploit, explore |-> explore, n |-> n]
        /\ eop' = "select"
        /\ UNCHANGED <<exploration_rate, exploration_history, efeedback,
                       erate_before, ehighs>>

\* the caller is done with the outcome of its last call
ExploreReturn ==
    /\ eop \in {"update", "select"}
    /\ eop' = "idle"
    /\ efeedback' = <<>>
    /\ erate_before' = exploration_rate
    /\ epools' = NoPools
    /\ eresult' = <<>>
    /\ UNCHANGED <<exploration_rate, exploration_history, ehighs>>

ExploreNext ==
    \/ /\ eop \in {"init", "idle"}
       /\ \E fb \in FeedbackBatches :
              UpdateExplorationRate(fb) /\ UNCHANGED <<fvars, dvars, vvars,
                                                       cvars>>
    \/ ExploreReturn /\ UNCHANGED <<fvars, dvars, vvars, cvars>>
    \/ /\ eop \in {"init", "idle"}
       /\ \E args \in SelectArgs :
              SelectRecommendations(args[1], args[2], args[3])
                  /\ UNCHANGED <<fvars, dvars, vvars, cvars>>

\* one selector, constructed and then updated and queried in any order
SpecExplore == ExploreInit /\ [][ExploreNext]_vars

\* --------------------------------------------- apply_fairness_constraints
FairScores == {50, 90}

FairArtists == {"X", "Y"}

\* the shapes of one candidate, its id aside: a primary artist, no artists
\* key, or an empty artists list
FairTrackShapes ==
    {[artists |-> ArtistsOf(a), recommendation_score |-> s] :
        a \in FairArtists, s \in FairScores}
    \cup {[recommendation_score |-> s] : s \in FairScores}
    \cup {[artists |-> <<>>, recommendation_score |-> s] : s \in FairScores}

\* the list l with the i-th track given the i-th id
WithIds(l) == [i \in 1..Len(l) |-> [id |-> TrackIds[i]] @@ l[i]]

\* the candidate lists of n tracks, with their ids
FairTrackLists(n) == {WithIds(l) : l \in [1..n -> FairTrackShapes]}

\* a grouping that puts every track into its artist's list twice
RECURSIVE GroupByArtistDoubling(_, _)
GroupByArtistDoubling(ts, n) ==
    IF n = 0 THEN <<>>
    ELSE LET d == GroupByArtistDoubling(ts, n - 1)
             a == PrimaryArtist(ts[n])
         IN  DictPut(d, a, DictGet(d, a, <<>>) \o <<ts[n], ts[n]>>)

\* lines 270-275: group the tracks by primary artist
RECURSIVE GroupByArtist(_, _)
GroupByArtist(ts, n) ==
    IF n = 0 THEN <<>>
    ELSE LET d == GroupByArtist(ts, n - 1)
             a == PrimaryArtist(ts[n])
         IN  DictPut(d, a, Append(DictGet(d, a, <<>>), ts[n]))

\* lines 286-287: each artist's list sorted by recommendation_score, descending
SortGroups(d) ==
    [i \in 1..Len(d) |->
        [k |-> d[i].k,
         v |-> SortDesc(d[i].v, [j \in 1..Len(d[i].v) |-> RecScore(d[i].v[j])])]]

\* line 279: max(1, max_recommendations // num_artists)
PerArtistCap(m, num_artists) == Max(1, m \div num_artists)

\* lines 292-299: the first artist, in dict order, of minimal count among those
\* under the cap; 0 stands for None
RECURSIVE SelectArtistFrom(_, _, _, _, _, _)
SelectArtistFrom(d, counts, cap, i, min_count, chosen) ==
    IF i > Len(d) THEN chosen
    ELSE LET c == DictGet(counts, d[i].k, 0)
         IN  IF c < cap /\ (min_count = -1 \/ c < min_count)
             THEN SelectArtistFrom(d, counts, cap, i + 1, c, i)
             ELSE SelectArtistFrom(d, counts, cap, i + 1, min_count, chosen)

\* index into artist_tracks of selected_artist, 0 for None
SelectedArtist(d, counts, cap) == SelectArtistFrom(d, counts, cap, 1, -1, 0)

\* lines 268-287 and the handler, lines 313-315
FairnessSetup ==
    /\ fpc = "call"
    /\ IF (\E i \in 1..Len(tracks) : ArtistsRaises(tracks[i])) \/ tracks = <<>>
       THEN \* IndexError in the grouping loop, or ZeroDivisionError at line 279
            /\ fresult' = Take(tracks, max_recommendations)
            /\ fraised' = TRUE
            /\ fpc' = "done"
            /\ UNCHANGED <<artist_tracks, artist_counts, max_tracks_per_artist,
                           selected_tracks>>
       ELSE LET grouped == GroupByArtist(tracks, Len(tracks))
            IN  /\ artist_tracks' = SortGroups(grouped)
                /\ max_tracks_per_artist' =
                       PerArtistCap(max_recommendations, Len(grouped))
                /\ selected_tracks' = <<>>
                /\ artist_counts' = <<>>
                /\ fpc' = "loop"
                /\ UNCHANGED <<fresult, fraised>>
    /\ UNCHANGED <<tracks, max_recommendations>>

\* the loop test at line 290 fails, or line 301 breaks
LoopExits ==
    \/ Len(selected_tracks) >= max_recommendations
    \/ SelectedArtist(artist_tracks, artist_counts, max_tracks_per_artist) = 0

\* one iteration of the while loop, lines 290-309, or its exit to line 311
FairnessLoopStep ==
    /\ fpc = "loop"
    /\ IF LoopExits
       THEN /\ fresult' = selected_tracks
            /\ fpc' = "done"
            /\ UNCHANGED <<artist_tracks, artist_counts, selected_tracks>>
       ELSE LET i == SelectedArtist(artist_tracks, artist_counts,
                                    max_tracks_per_artist)
                a == artist_tracks[i].k
                l == artist_tracks[i].v
            IN  IF l # <<>>
                THEN /\ selected_tracks' = Append(selected_tracks, Head(l))
                     /\ artist_tracks' = DictPut(artist_tracks, a, Tail(l))
                     /\ artist_counts' =
                            DictPut(artist_counts, a, DictGet(artist_counts, a, 0) + 1)
                     /\ UNCHANGED <<fresult, fpc>>
                ELSE \* the chosen artist's list is empty: nothing changes
                     UNCHANGED <<artist_tracks, artist_counts, selected_tracks,
                                 fresult, fpc>>
    /\ UNCHANGED <<tracks, max_recommendations, max_tracks_per_artist,
                   fraised>>

FairInit ==
    /\ EvaluatorIdle
    /\ NoConcurrency
    /\ \E n \in 0..MaxTracks : tracks \in FairTrackLists(n)
    /\ max_recommendations \in 0..MaxRecs
    /\ artist_tracks = <<>>
    /\ artist_counts = <<>>
    /\ max_tracks_per_artist = 0
    /\ selected_tracks = <<>>
    /\ fresult = <<>>
    /\ fraised = FALSE
    /\ fpc = "call"
    /\ SelectorIdle
    /\ PipelineIdle

FairNext ==
    \/ FairnessSetup /\ UNCHANGED <<evars, dvars, vvars, cvars>>
    \/ FairnessLoopStep /\ UNCHANGED <<evars, dvars, vvars, cvars>>

\* one call of apply_fairness_constraints on any bounded input
SpecFair == FairInit /\ [][FairNext]_vars

\* the call runs to its end unless it cannot take a step
SpecFairLive == FairInit /\ [][FairNext]_vars /\ WF_vars(FairNext)

\* ------------------------------------------------------ DebiasingPipeline
\* The inputs of a track are integers: recommendation_score in hundredths
\* (90 is the float 0.9) and popularity 0..100.  Every field the stages write
\* is the double the code computes, operation by operation.

\* the scores, in hundredths, of the candidates below
ShapeScores == {0, 50, 60, 90}

\* the popularities of the candidates below
ShapePopularities == {20, 50, 60, 61, 70, 80, 81, 90, 100}

\* the float n / 100 of the tenths and of these scores and popularities,
\* each computed once
Hundredths ==
    [n \in {10 * k : k \in 0..10} \cup ShapeScores \cup ShapePopularities |->
        DLit(n, 100)] @@ <<>>

\* a score in hundredths as the float the track carries
AsFloat(score) == IF score \in DOMAIN Hundredths THEN Hundredths[score] ELSE DLit(score, 100)

\* the float literals of the stages
One == DInt(1)
Tenth(n) == Hundredths[10 * n]

\* self.diversity_weight (line 98) and self.novelty_weight (line 208)
diversity_weight == Tenth(4)
novelty_weight == Tenth(3)

\* config.py line 45
NOVELTY_BOOST == DLit(15, 10)

\* track[key] = val
SetField(track, key, val) == (key :> val) @@ track

\* a popularity that is not a number (a str) is held as NonNumber
NonNumber == 0 - 1

\* track.get('popularity', 50) / 100.0 raises TypeError on a str
PopularityRaises(track) == Get(track, "popularity", 50) = NonNumber

\* lines 27-49: apply_popularity_normalization; (p/100) ** alpha is kept as the
\* term <<"pow", p>>, 1 - (p/100) ** alpha as <<"1-pow", p>>.  The loop of
\* lines 35-38 raises before the first track is written.
ApplyPopularityNormalization(ts) ==
    IF \E i \in 1..Len(ts) : PopularityRaises(ts[i]) THEN ts
    ELSE ListOf([i \in 1..Len(ts) |->
            LET p == Get(ts[i], "popularity", 50)
            IN  SetField(SetField(ts[i], "normalized_popularity", <<"pow", p>>),
                         "popularity_bias_reduction", <<"1-pow", p>>)])

\* a penalty that spares every track
PenaltyAtNone(p, strength) == DZero

\* lines 55-63: the penalty at popularity p (0..100) for the penalty_strength
\* strength, a double
PenaltyAt(p, strength) ==
    LET popularity == AsFloat(p)
        penalty_strength == strength
    IN  IF DLess(Tenth(8), popularity)
        THEN DMul(DMul(penalty_strength, DSub(popularity, Tenth(8))), DInt(5))
        ELSE IF DLess(Tenth(6), popularity)
        THEN DMul(DMul(penalty_strength, DSub(popularity, Tenth(6))), DLit(25, 10))
        ELSE DZero

\* the double 2^k
PowerOfTwo(k) == [e |-> k, m |-> <<0, 0, 0, 1024>>]

\* penalty_strength arguments: 0.0, 0.1, the default 0.3, 1.0, and two
\* strengths near the rounding of 1 - penalty: 2.0 ** -53, whose penalty at
\* popularity 100 leaves 1 - penalty below 1, and 2.0 ** -60, whose penalty
\* 1 - penalty absorbs
Strengths ==
    {DZero, Tenth(1), DefaultStrength, One, PowerOfTwo(0 - 53),
     PowerOfTwo(0 - 60)}

\* a value computed once and looked up: table[key], which is value
Lookup(table, key, value) == IF key \in DOMAIN table THEN table[key] ELSE value

\* the penalties of the popularities of the candidates at these strengths
Penalties ==
    [ps \in ShapePopularities \X Strengths |-> PenaltyAt(ps[1], ps[2])] @@ <<>>

\* lines 55-63 as the stage computes them
Penalty(p, strength) == Lookup(Penalties, <<p, strength>>, PenaltyAt(p, strength))

\* line 66: recommendation_score * (1 - penalty)
PenaltyAdjusted(score, p, strength) ==
    DMul(AsFloat(score), DSub(One, Penalty(p, strength)))

PenaltyAdjustedScores ==
    [a \in ShapeScores \X ShapePopularities \X Strengths |->
        PenaltyAdjusted(a[1], a[2], a[3])] @@ <<>>

\* a penalty stage that leaves the score of the tracks as it was
PenaltyAppliedKeepingScore(ts, strength) ==
    ListOf([i \in 1..Len(ts) |->
        IF \E j \in 1..i : PopularityRaises(ts[j]) THEN ts[i]
        ELSE SetField(SetField(ts[i], "popularity_penalty",
                               Penalty(Get(ts[i], "popularity", 50), strength)),
                      "popularity_adjusted_score", AsFloat(RecScore(ts[i])))])

\* lines 51-72: apply_popularity_penalty(tracks, penalty_strength); the loop
\* raises at the first track whose popularity is not a number, the tracks
\* before it are written and the handler returns the list
PenaltyApplied(ts, strength) ==
    ListOf([i \in 1..Len(ts) |->
        IF \E j \in 1..i : PopularityRaises(ts[j]) THEN ts[i]
        ELSE LET p == Get(ts[i], "popularity", 50)
                 score == RecScore(ts[i])
             IN  SetField(SetField(ts[i], "popularity_penalty", Penalty(p, strength)),
                          "popularity_adjusted_score",
                          Lookup(PenaltyAdjustedScores, <<score, p, strength>>,
                                 PenaltyAdjusted(score, p, strength)))])

\* line 372: the stage as the pipeline calls it, penalty_strength left out
ApplyPopularityPenalty(ts) == PenaltyApplied(ts, DefaultStrength)

\* lines 83-84: popularity_weight = 1.0 - (popularity * 0.5) and
\* base_score * (1 + popularity_weight * 0.3)
PopularityAwareScore(score, p) ==
    LET popularity_weight == DSub(One, DMul(AsFloat(p), Tenth(5)))
    IN  DMul(AsFloat(score), DAdd(One, DMul(popularity_weight, Tenth(3))))

PopularityAwareScores ==
    [a \in ShapeScores \X ShapePopularities |->
        PopularityAwareScore(a[1], a[2])] @@ <<>>

\* a ranking stage that drops the tracks without a popularity
ApplyPopularityAwareRankingDropping(ts) ==
    LET HasPopularity(t) == "popularity" \in DOMAIN t
    IN  SelectSeq(ts, HasPopularity)

\* lines 74-92: apply_popularity_aware_ranking; raises and returns as the
\* penalty stage does
ApplyPopularityAwareRanking(ts) ==
    ListOf([i \in 1..Len(ts) |->
        IF \E j \in 1..i : PopularityRaises(ts[j]) THEN ts[i]
        ELSE LET p == Get(ts[i], "popularity", 50)
                 score == RecScore(ts[i])
             IN  SetField(ts[i], "popularity_aware_score",
                          Lookup(PopularityAwareScores, <<score, p>>,
                                 PopularityAwareScore(score, p)))])

\* some track of the list has an empty artists list
SomeArtistsRaise(ts) == \E i \in 1..Len(ts) : ArtistsRaises(ts[i])

\* how many tracks of the list have the primary artist of ts[i]
ArtistCount(ts, i) ==
    Cardinality({j \in 1..Len(ts) : PrimaryArtist(ts[j]) = PrimaryArtist(ts[i])})

\* the boosts 1.0 / count of the counts up to 4
Boosts == [count \in 1..4 |-> DDivInt(One, count)] @@ <<>>

\* 1.0 / max(count, 1) (lines 120, 146, 247)
OneOver(count) == Lookup(Boosts, Max(count, 1), DDivInt(One, Max(count, 1)))

\* line 125: base_score * (1 + diversity_boost * self.diversity_weight), the
\* boost being 1.0 / max(count, 1)
DiversityAdjusted(score, count) ==
    DMul(AsFloat(score), DAdd(One, DMul(OneOver(count), diversity_weight)))

DiversityAdjustedScores ==
    [a \in ShapeScores \X (1..4) |-> DiversityAdjusted(a[1], a[2])] @@ <<>>

\* lines 102-130: apply_diversity_boost; the grouping loop raises before any
\* track is written, and the handler returns the list as it is
ApplyDiversityBoost(ts) ==
    IF SomeArtistsRaise(ts) THEN ts
    ELSE ListOf([i \in 1..Len(ts) |->
            LET artist_count == ArtistCount(ts, i)
                score == RecScore(ts[i])
            IN  SetField(SetField(ts[i], "diversity_boost", OneOver(artist_count)),
                         "diversity_adjusted_score",
                         Lookup(DiversityAdjustedScores, <<score, artist_count>>,
                                DiversityAdjusted(score, artist_count)))])

\* lines 132-160: apply_genre_diversity
ApplyGenreDiversity(ts) ==
    ListOf([i \in 1..Len(ts) |->
        LET genre_overlap ==
                Cardinality({j \in 1..Len(ts) :
                    /\ j # i
                    /\ Get(ts[i], "genres", {}) \cap Get(ts[j], "genres", {}) # {}})
        IN  SetField(ts[i], "genre_diversity_boost", OneOver(genre_overlap + 1))])

\* a temporal stage that answers an empty list with a placeholder item
ApplyTemporalDiversityPlaceholder(ts) ==
    IF ts = <<>> THEN <<[temporal_diversity_boost |-> 10]>> ELSE ts

\* lines 162-200: apply_temporal_diversity, the boost in tenths; release_year
\* is int(release_date[:4]), a track without a release date counts as of 2020
ApplyTemporalDiversity(ts) ==
    ListOf([i \in 1..Len(ts) |->
        LET album == Get(ts[i], "album", EmptyDict)
            year == Get(album, "release_year", 2020)
            years_old == 2024 - year
        IN  SetField(ts[i], "temporal_diversity_boost",
                     IF years_old > 20 THEN 13
                     ELSE IF years_old > 10 THEN 12
                     ELSE IF years_old > 5 THEN 11 ELSE 10)])

\* helpers.py lines 79-85: (artist_novelty * 0.7 + track_novelty * 0.3)
\* * NOVELTY_BOOST, artist_novelty 1.0 or 0.3 and track_novelty 1.0 or 0.1
NoveltyOf(artist_new, track_new) ==
    LET artist_novelty == IF artist_new THEN One ELSE Tenth(3)
        track_novelty == IF track_new THEN One ELSE Tenth(1)
    IN  DMul(DAdd(DMul(artist_novelty, Tenth(7)), DMul(track_novelty, Tenth(3))),
             NOVELTY_BOOST)

\* the four novelty scores, each computed once
NoveltyScores == [ab \in BOOLEAN \X BOOLEAN |-> NoveltyOf(ab[1], ab[2])] @@ <<>>

\* helpers.py lines 75-80: is the artist new to the user, is the track
NewToUser(track, history) ==
    LET artist_id == Get(Get(track, "artists", <<EmptyDict>>)[1], "id", "")
        track_id == Get(track, "id", "")
    IN  <<artist_id \notin Range(history), track_id \notin Range(history)>>

\* helpers.py lines 73-85: calculate_novelty_score
CalculateNoveltyScore(track, history) == NoveltyScores[NewToUser(track, history)]

\* line 222: base_score * (1 + novelty_score * self.novelty_weight), the
\* novelty score being that of new
NoveltyAdjusted(score, new) ==
    DMul(AsFloat(score), DAdd(One, DMul(NoveltyScores[new], novelty_weight)))

NoveltyAdjustedScores ==
    [a \in ShapeScores \X (BOOLEAN \X BOOLEAN) |->
        NoveltyAdjusted(a[1], a[2])] @@ <<>>

\* lines 214-232: apply_novelty_boost; calculate_novelty_score raises at the
\* first track with an empty artists list, the tracks before it are written
\* and the handler returns the list
ApplyNoveltyBoost(ts, history) ==
    ListOf([i \in 1..Len(ts) |->
        IF \E j \in 1..i : ArtistsRaises(ts[j]) THEN ts[i]
        ELSE LET new == NewToUser(ts[i], history)
                 score == RecScore(ts[i])
             IN  SetField(SetField(ts[i], "novelty_score",
                                   CalculateNoveltyScore(ts[i], history)),
                          "novelty_adjusted_score",
                          Lookup(NoveltyAdjustedScores, <<score, new>>,
                                 NoveltyAdjusted(score, new)))])

\* lines 234-256: apply_artist_novelty
ApplyArtistNovelty(ts) ==
    IF SomeArtistsRaise(ts) THEN ts
    ELSE ListOf([i \in 1..Len(ts) |->
            SetField(ts[i], "artist_novelty_boost", OneOver(ArtistCount(ts, i)))])

\* lines 386-390: a * 0.3 + b * 0.3 + c * 0.4
Fused(a, b, c) == DAdd(DAdd(DMul(a, Tenth(3)), DMul(b, Tenth(3))), DMul(c, Tenth(4)))

\* the fused scores of the adjusted scores of the candidates of the pipeline,
\* given by their score and popularity
FusedScores ==
    [k \in {<<PenaltyAdjustedScores[<<sp[1], sp[2], DefaultStrength>>],
              DiversityAdjustedScores[<<sp[1], count>>],
              NoveltyAdjustedScores[<<sp[1], new>>]>> :
                sp \in {<<90, 90>>, <<60, 70>>, <<90, 80>>, <<60, 20>>,
                        <<50, 20>>},
                count \in 1..4, new \in BOOLEAN \X BOOLEAN} |->
        Fused(k[1], k[2], k[3])] @@ <<>>

\* lines 386-390: the fused score, each component falling back to the
\* recommendation score
FinalScore(track) ==
    LET base == AsFloat(RecScore(track))
        a == Get(track, "popularity_adjusted_score", base)
        b == Get(track, "diversity_adjusted_score", base)
        c == Get(track, "novelty_adjusted_score", base)
    IN  Lookup(FusedScores, <<a, b, c>>, Fused(a, b, c))

\* lines 385-391: debiased_score written on every track
WithDebiasedScores(ts) ==
    ListOf([i \in 1..Len(ts) |->
        SetField(ts[i], "debiased_score", FinalScore(ts[i]))])

\* the keys of the sort: x.get('debiased_score', 0)
DebiasedKeys(ts) == DRanks([i \in 1..Len(ts) |-> Get(ts[i], "debiased_score", DZero)])

\* the same sort with ties in reverse input order
SortByDebiasedScoreUnstable(ts) ==
    LET n == Len(ts)
        rev == [i \in 1..n |-> ts[n + 1 - i]]
    IN  SortDesc(rev, DebiasedKeys(rev))

\* line 394: tracks.sort(key=debiased_score, reverse=True)
SortByDebiasedScore(ts) == SortDesc(ts, DebiasedKeys(ts))

\* lines 370-396: the stages in order, the fused score and the sort
FullDebiasing(ts, history) ==
    SortByDebiasedScore(
        WithDebiasedScores(
            ApplyArtistNovelty(
                ApplyNoveltyBoost(
                    ApplyTemporalDiversity(
                        ApplyGenreDiversity(
                            ApplyDiversityBoost(
                                ApplyPopularityAwareRanking(
                                    ApplyPopularityPenalty(
                                        ApplyPopularityNormalization(ts)))))),
                    history))))

\* candidates of the pipeline: id aside, a primary artist, a popularity and a
\* relevance score; one track with an empty artists list, one with neither
\* artists nor popularity
DebiasShapes ==
    {[artists |-> ArtistsOf(aps[1]), popularity |-> aps[2],
      recommendation_score |-> aps[3]] :
        aps \in {<<"X", 90, 90>>, <<"X", 70, 60>>, <<"Y", 80, 90>>,
                 <<"Y", 20, 60>>, <<"Y", 20, 50>>}}
    \cup {[artists |-> <<>>, popularity |-> 20, recommendation_score |-> 60],
          [recommendation_score |-> 50]}

\* the lists of n candidates, with their ids
DebiasTrackLists(n) == {WithIds(l) : l \in [1..n -> DebiasShapes]}

\* the user_history arguments of the calls
HistoryArgs ==
    {NoneArg} \cup {[list |-> h] : h \in {<<>>, <<"X", "t1">>}}

\* line 367: if user_history
Truthy(arg) == "list" \in DOMAIN arg /\ arg.list # <<>>

DebiasInit ==
    /\ EvaluatorIdle
    /\ NoConcurrency
    /\ FairIdle
    /\ SelectorIdle
    /\ PipelineIdle

\* lines 360-400: apply_full_debiasing(tracks, user_history); no statement
\* outside the stages' own handlers raises
ApplyFullDebiasing(ts, arg) ==
    LET history == IF Truthy(arg) THEN arg.list ELSE user_history
    IN  /\ dop \in {"init", "idle"}
        /\ user_history' = history
        /\ dresult' = FullDebiasing(ts, history)
        /\ dtracks' = ts
        /\ dhistory' = arg
        /\ dop' = "call"
        /\ dstage' = "apply_full_debiasing"
        /\ dquota' = <<>>
        /\ dstrength' = DefaultStrength

\* the caller is done with the outcome of its last call
DebiasReturn ==
    /\ dop = "call"
    /\ dop' = "idle"
    /\ dtracks' = <<>>
    /\ dhistory' = NoneArg
    /\ dresult' = <<>>
    /\ dstage' = "none"
    /\ dquota' = <<>>
    /\ dstrength' = DefaultStrength
    /\ UNCHANGED user_history

DebiasNext ==
    \/ /\ dop \in {"init", "idle"}
       /\ \E n \in 0..MaxDebias, arg \in HistoryArgs :
              \E ts \in DebiasTrackLists(n) :
                  ApplyFullDebiasing(ts, arg) /\ UNCHANGED <<fvars, evars,
                                                             vvars, cvars>>
    \/ DebiasReturn /\ UNCHANGED <<fvars, evars, vvars, cvars>>

\* one pipeline, constructed and then called any number of times
SpecDebias == DebiasInit /\ [][DebiasNext]_vars

\* lines 360-400: the caller hands the list a call returned to
\* apply_full_debiasing again, with the user_history argument of that call
ApplyFullDebiasingAgain ==
    LET history == IF Truthy(dhistory) THEN dhistory.list ELSE user_history
    IN  /\ dop = "call"
        /\ dstage = "apply_full_debiasing"
        /\ user_history' = history
        /\ dresult' = FullDebiasing(dresult, history)
        /\ dtracks' = dresult
        /\ dop' = "again"
        /\ UNCHANGED <<dhistory, dstage, dquota, dstrength>>

RerunInit ==
    /\ EvaluatorIdle
    /\ NoConcurrency
    /\ FairIdle
    /\ SelectorIdle
    /\ PipelineIdle

RerunNext ==
    \/ /\ dop = "init"
       /\ \E n \in 0..MaxDebias, arg \in HistoryArgs :
              \E ts \in DebiasTrackLists(n) :
                  ApplyFullDebiasing(ts, arg) /\ UNCHANGED <<fvars, evars,
                                                             vvars, cvars>>
    \/ ApplyFullDebiasingAgain /\ UNCHANGED <<fvars, evars, vvars, cvars>>

\* one pipeline, called on a list and then on what it returned
SpecRerun == RerunInit /\ [][RerunNext]_vars

\* ------------------------------------------------- the stages, one by one
\* lines 322-330: the category of a track by its popularity
CategoryOf(track) ==
    LET popularity == Get(track, "popularity", 50)
    IN  IF popularity > 70 THEN "mainstream"
        ELSE IF popularity < 30 THEN "indie"
        ELSE "vintage"

\* the tracks of a category, in input order; none for a category the
\* method does not know (categorized_tracks.get(category, []))
CategoryTracks(ts, category) ==
    LET InCategory(t) == CategoryOf(t) = category
    IN  SelectSeq(ts, InCategory)

\* lines 336-343: the selection over the entries quota[i..] of the quota map
RECURSIVE QuotaSelected(_, _, _)
QuotaSelected(ts, quota, i) ==
    IF i > Len(quota) THEN <<>>
    ELSE LET category_tracks == CategoryTracks(ts, quota[i].k)
             num_needed == FFloor(FMulInt(Len(ts), quota[i].v))
             sorted == SortDesc(category_tracks,
                                [j \in 1..Len(category_tracks) |->
                                    RecScore(category_tracks[j])])
         IN  Take(sorted, num_needed) \o QuotaSelected(ts, quota, i + 1)

\* lines 317-348: apply_representation_quota(tracks, quota_percentages);
\* popularity > 70 raises TypeError on a str and the handler returns tracks
ApplyRepresentationQuota(ts, quota) ==
    IF \E i \in 1..Len(ts) : PopularityRaises(ts[i]) THEN ts
    ELSE QuotaSelected(ts, quota, 1)

\* the quota maps of the calls: category -> share, in insertion order
QuotaMaps ==
    {<<>>,
     <<[k |-> "mainstream", v |-> Dec(50)], [k |-> "indie", v |-> Dec(50)]>>,
     <<[k |-> "indie", v |-> Dec(30)], [k |-> "vintage", v |-> Dec(40)],
       [k |-> "mainstream", v |-> Dec(30)]>>,
     <<[k |-> "other", v |-> Dec(100)]>>}

\* the apply_* methods of PopularityDebiasing, DiversityPromotion and
\* NoveltyPromotion
StageNames ==
    {"apply_popularity_normalization", "apply_popularity_penalty",
     "apply_popularity_aware_ranking", "apply_diversity_boost",
     "apply_genre_diversity", "apply_temporal_diversity",
     "apply_novelty_boost", "apply_artist_novelty"}

\* what the method returns on the list ts, the novelty history being history
StageResult(name, ts, history) ==
    CASE name = "apply_popularity_normalization" -> ApplyPopularityNormalization(ts)
      [] name = "apply_popularity_penalty" -> ApplyPopularityPenalty(ts)
      [] name = "apply_popularity_aware_ranking" -> ApplyPopularityAwareRanking(ts)
      [] name = "apply_diversity_boost" -> ApplyDiversityBoost(ts)
      [] name = "apply_genre_diversity" -> ApplyGenreDiversity(ts)
      [] name = "apply_temporal_diversity" -> ApplyTemporalDiversity(ts)
      [] name = "apply_novelty_boost" -> ApplyNoveltyBoost(ts, history)
      [] name = "apply_artist_novelty" -> ApplyArtistNovelty(ts)

\* the candidates of the pipeline and one whose popularity is a str
StageShapes ==
    DebiasShapes
    \cup {[artists |-> ArtistsOf("X"), popularity |-> NonNumber,
           recommendation_score |-> 60]}

\* the lists of n candidates, with their ids
StageTrackLists(n) == {WithIds(l) : l \in [1..n -> StageShapes]}

\* the components as constructed, the novelty history set or not
\* (NoveltyPromotion.set_user_history)
StagesInit ==
    /\ EvaluatorIdle
    /\ NoConcurrency
    /\ FairIdle
    /\ SelectorIdle
    /\ user_history \in {<<>>, <<"X", "t1">>}
    /\ dop = "init"
    /\ dtracks = <<>>
    /\ dhistory = NoneArg
    /\ dresult = <<>>
    /\ dstage = "none"
    /\ dquota = <<>>
    /\ dstrength = DefaultStrength

\* no method has been called yet
NothingCalled == dop = "init" /\ eop = "init" /\ FairIdle

\* one apply_* method called on its own
CallStage(name, ts) ==
    /\ NothingCalled
    /\ dop' = "stage"
    /\ dstage' = name
    /\ dtracks' = ts
    /\ dresult' = StageResult(name, ts, user_history)
    /\ UNCHANGED <<user_history, dhistory, dquota, dstrength>>

\* candidates at the tier boundaries of the penalty and at popularity 100,
\* with a score of 0, of 0.5 or none, one without a popularity, and one
\* whose popularity is a str
PenaltyShapes ==
    {[popularity |-> p, recommendation_score |-> score] :
        p \in {60, 61, 80, 81, 100}, score \in {0, 50}}
    \cup {[popularity |-> 100], [recommendation_score |-> 50],
          [popularity |-> NonNumber, recommendation_score |-> 50]}

PenaltyTrackLists(n) == {WithIds(l) : l \in [1..n -> PenaltyShapes]}

\* lines 51-72: apply_popularity_penalty called on its own with a
\* penalty_strength
CallPopularityPenalty(ts, strength) ==
    /\ NothingCalled
    /\ dop' = "stage"
    /\ dstage' = "apply_popularity_penalty"
    /\ dtracks' = ts
    /\ dstrength' = strength
    /\ dresult' = PenaltyApplied(ts, strength)
    /\ UNCHANGED <<user_history, dhistory, dquota>>

\* lines 317-348: apply_representation_quota called on its own
CallRepresentationQuota(ts, quota) ==
    /\ NothingCalled
    /\ dop' = "stage"
    /\ dstage' = "apply_representation_quota"
    /\ dtracks' = ts
    /\ dquota' = quota
    /\ dresult' = ApplyRepresentationQuota(ts, quota)
    /\ UNCHANGED <<user_history, dhistory, dstrength>>

\* line 266: apply_fairness_constraints(tracks, max_recommendations) entered
FairnessCall(ts, m) ==
    /\ NothingCalled
    /\ tracks' = ts
    /\ max_recommendations' = m
    /\ fpc' = "call"
    /\ UNCHANGED <<artist_tracks, artist_counts, max_tracks_per_artist,
                   selected_tracks, fresult, fraised>>

\* candidates as the pipeline hands them on, with a debiased_score (given in
\* hundredths) that ranks the two tracks of X against their relevance score
RankedShapes ==
    {[artists |-> ArtistsOf(aps[1]), recommendation_score |-> aps[2],
      debiased_score |-> AsFloat(aps[3])] :
        aps \in {<<"X", 90, 50>>, <<"X", 60, 80>>, <<"Y", 70, 70>>}}

RankedTrackLists(n) == {WithIds(l) : l \in [1..n -> RankedShapes]}

StagesNext ==
    \/ /\ NothingCalled
       /\ \E name \in StageNames, n \in 0..MaxStage :
              \E ts \in StageTrackLists(n) :
                  CallStage(name, ts) /\ UNCHANGED <<fvars, evars, vvars,
                                                     cvars>>
    \/ /\ NothingCalled
       /\ \E strength \in Strengths, n \in 0..MaxStage :
              \E ts \in PenaltyTrackLists(n) :
                  CallPopularityPenalty(ts, strength)
                      /\ UNCHANGED <<fvars, evars, vvars, cvars>>
    \/ /\ NothingCalled
       /\ \E quota \in QuotaMaps, n \in 0..MaxStage :
              \E ts \in StageTrackLists(n) :
                  CallRepresentationQuota(ts, quota)
                      /\ UNCHANGED <<fvars, evars, vvars, cvars>>
    \/ /\ NothingCalled
       /\ \E arg \in HistoryArgs, n \in 0..MaxStage :
              \E ts \in StageTrackLists(n) :
                  ApplyFullDebiasing(ts, arg) /\ UNCHANGED <<fvars, evars,
                                                             vvars, cvars>>
    \/ /\ NothingCalled
       /\ \E args \in SelectArgs :
              SelectRecommendations(args[1], args[2], args[3])
                  /\ UNCHANGED <<fvars, dvars, vvars, cvars>>
    \/ /\ NothingCalled
       /\ \E m \in 0..MaxRecs, n \in 0..MaxStage :
              \E ts \in FairTrackLists(n) :
                  FairnessCall(ts, m) /\ UNCHANGED <<evars, dvars, vvars,
                                                     cvars>>
    \/ /\ NothingCalled
       /\ \E m \in 0..MaxRecs, n \in 0..MaxStage :
              \E ts \in RankedTrackLists(n) :
                  FairnessCall(ts, m) /\ UNCHANGED <<evars, dvars, vvars,
                                                     cvars>>
    \/ FairnessSetup /\ UNCHANGED <<evars, dvars, vvars, cvars>>
    \/ FairnessLoopStep /\ UNCHANGED <<evars, dvars, vvars, cvars>>

\* each method called once on newly built components
SpecStages == StagesInit /\ [][StagesNext]_vars

\* ------------------------------------------------ RecommendationEvaluator
\* a float that is not a number (numpy's mean of an empty list)
FNan == [h |-> 0 - 1, m |-> 0, l |-> 0]

\* np.mean of a list of doubles: nan for the empty list
NpMean(xs) == IF xs = <<>> THEN FNan ELSE FMean(xs)

\* k / n for small ints, n >= 1
Ratio(k, n) == FDivInt(FromInt(k), n)

\* the double a decimal literal c/1000 denotes
Milli(c) == FDivInt(FromInt(c), 1000)

\* if user_data: / if context: (None and {} are falsy)
DictTruthy(d) == d # NoneArg /\ DOMAIN d # {}

\* recommendation lists handed to the evaluator: one artist, two artists with
\* genres, an empty artists list, no artists key, a popularity that is a str
EvalShapes ==
    { [artists |-> ArtistsOf("A"), popularity |-> 50,
       audio_features |-> [energy |-> Dec(90), valence |-> Dec(10)]],
      [artists |-> <<[id |-> "A"], [id |-> "B"]>>, popularity |-> 20,
       genres |-> <<"rock", "pop">>],
      [artists |-> <<>>, genres |-> <<"rock">>],
      [popularity |-> 90],
      [artists |-> ArtistsOf("B"), popularity |-> NonNumber] }

EvalTrackLists(n) == {WithIds(l) : l \in [1..n -> EvalShapes]}

\* user_data: None, {}, top tracks with ids, top tracks without an id
UserDataArgs ==
    { NoneArg, EmptyDict,
      [top_tracks |-> <<[id |-> "t1"], [id |-> "A"]>>],
      [top_tracks |-> <<[name |-> "x"]>>] }

\* context: None or a dict
ContextArgs == {NoneArg, [time_category |-> "morning", mood |-> "melancholic"]}

\* evaluation.py lines 257-260 and helpers.py lines 93-96: the ids of every
\* artist of every track
AllArtistIds(recs) ==
    UNION {{Get(a, "id", "") : a \in Range(Get(recs[i], "artists", <<>>))}
           : i \in 1..Len(recs)}

\* lines 265-270: the set of every genre of every track
AllGenres(recs) ==
    UNION {Range(Get(recs[i], "genres", <<>>)) : i \in 1..Len(recs)}

\* helpers.py lines 87-101: calculate_diversity_score
CalculateDiversityScore(recs) ==
    IF recs = <<>> THEN FZero
    ELSE Ratio(Cardinality(AllArtistIds(recs)), Len(recs))

\* a diversity metric that counts each track's first artist only
ArtistDiversityPrimary(recs) ==
    IF recs = <<>> THEN FZero
    ELSE Ratio(Cardinality({Get(Head(recs[i].artists), "id", "")
                            : i \in {j \in 1..Len(recs) :
                                       Get(recs[j], "artists", <<>>) # <<>>}}),
               Len(recs))

\* line 262: metrics['artist_diversity']
ArtistDiversity(recs) ==
    IF recs = <<>> THEN FZero
    ELSE Ratio(Cardinality(AllArtistIds(recs)), Len(recs))

\* lines 251-284: the metrics of calculate_diversity_metrics
DiversityMetrics(recs) ==
    [artist_diversity |-> ArtistDiversity(recs),
     genre_diversity |-> IF recs = <<>> THEN FZero
                         ELSE Ratio(Cardinality(AllGenres(recs)), Len(recs)),
     overall_diversity |-> CalculateDiversityScore(recs)]

\* helpers.py lines 73-85: calculate_novelty_score; the doubles
\* (a * 0.7 + t * 0.3) * 1.5 for a in {1.0, 0.3}, t in {1.0, 0.1} are the
\* doubles of the literals 1.5, 1.095, 0.765 and 0.36
HelperNoveltyScore(track, history) ==
    LET artist_id == Get(Head(Get(track, "artists", <<EmptyDict>>)), "id", "")
        track_id == Get(track, "id", "")
        artist_new == artist_id \notin Range(history)
        track_new == track_id \notin Range(history)
    IN  IF artist_new
        THEN (IF track_new THEN Milli(1500) ELSE Milli(1095))
        ELSE (IF track_new THEN Milli(765) ELSE Milli(360))

\* lines 371-373: 1.0 for an artist not in the history, else 0.3
ArtistNovelty(track, history) ==
    IF Get(Head(Get(track, "artists", <<EmptyDict>>)), "id", "")
           \notin Range(history)
    THEN FromInt(1) ELSE Dec(30)

\* lines 358-391: the metrics of calculate_novelty_metrics, {} when a track's
\* artists list is empty (IndexError, caught at line 389); novelty_variance is
\* not kept
NoveltyMetrics(recs, history) ==
    IF \E i \in 1..Len(recs) : ArtistsRaises(recs[i]) THEN EmptyDict
    ELSE [avg_novelty |->
              IF recs = <<>> THEN FZero
              ELSE FMean([i \in 1..Len(recs) |->
                             HelperNoveltyScore(recs[i], history)]),
          avg_artist_novelty |->
              IF recs = <<>> THEN FZero
              ELSE FMean([i \in 1..Len(recs) |->
                             ArtistNovelty(recs[i], history)])]

\* lines 70-121: _calculate_context_relevance
ContextMetrics(recs, context) ==
    LET time_category == Get(context, "time_category", "afternoon")
        mood == Get(context, "mood", "neutral")
        Features(t) == Get(t, "audio_features", EmptyDict)
        TimeRelevance(t) ==
            IF time_category = "morning" THEN Get(Features(t), "energy", Dec(50))
            ELSE IF time_category = "night"
                 THEN Get(Features(t), "acousticness", Dec(50))
            ELSE Dec(50)
        MoodRelevance(t) ==
            IF mood = "happy" THEN Get(Features(t), "valence", Dec(50))
            ELSE IF mood = "melancholic"
                 THEN FSub(FromInt(1), Get(Features(t), "valence", Dec(50)))
            ELSE Dec(50)
    IN  [time_relevance |-> NpMean([i \in 1..Len(recs) |-> TimeRelevance(recs[i])]),
         mood_relevance |-> NpMean([i \in 1..Len(recs) |-> MoodRelevance(recs[i])])]

\* line 39: np.mean raises on a popularity that is a str
PopularityMeanRaises(recs) == \E i \in 1..Len(recs) : PopularityRaises(recs[i])

\* line 48: track['id'] raises KeyError on a top track without an id
UserHistoryRaises(user_data) ==
    /\ DictTruthy(user_data)
    /\ \E i \in 1..Len(Get(user_data, "top_tracks", <<>>)) :
           "id" \notin DOMAIN user_data.top_tracks[i]

\* line 48: the ids of the user's top tracks
UserHistoryOf(user_data) ==
    LET top == Get(user_data, "top_tracks", <<>>)
    IN  [i \in 1..Len(top) |-> top[i].id]

\* lines 35-61: the snapshot of one evaluation; popularity_variance and
\* overall_quality_score are not kept
EvaluationMetrics(recs, user_data, context, stamp) ==
    [num_recommendations |-> Len(recs),
     avg_popularity |->
         NpMean([i \in 1..Len(recs) |-> FromInt(Get(recs[i], "popularity", 50))]),
     timestamp |-> stamp]
    @@ DiversityMetrics(recs)
    @@ (IF DictTruthy(user_data)
        THEN NoveltyMetrics(recs, UserHistoryOf(user_data)) ELSE EmptyDict)
    @@ (IF DictTruthy(context) THEN ContextMetrics(recs, context) ELSE EmptyDict)

\* the lists of the trackers, which of them are lists of the caller, and the
\* caller's lists, as one record
Trackers ==
    [diversity_history |-> diversity_history,
     artist_diversity_history |-> artist_diversity_history,
     genre_diversity_history |-> genre_diversity_history,
     novelty_history |-> novelty_history,
     artist_novelty_history |-> artist_novelty_history,
     track_novelty_history |-> track_novelty_history,
     satisfaction_history |-> satisfaction_history,
     feedback_analysis |-> feedback_analysis,
     held |-> held,
     caller_lists |-> caller_lists]

\* a list object has one content under every name it goes by: each list of
\* the trackers that is a list of the caller reads as that list
Synced(t) ==
    [name \in DOMAIN t |->
        IF name \in Range(TrackerLists)
        THEN IF t.held[name] = 0 THEN t[name]
             ELSE t.caller_lists[t.held[name]]
        ELSE IF name = "feedback_analysis"
        THEN ListOf([i \in 1..Len(t.feedback_analysis) |->
                 IF DictGet(t.held.feedback_analysis,
                            t.feedback_analysis[i].k, 0) = 0
                 THEN t.feedback_analysis[i]
                 ELSE [k |-> t.feedback_analysis[i].k,
                       v |-> t.caller_lists[
                                 DictGet(t.held.feedback_analysis,
                                         t.feedback_analysis[i].k, 0)]]])
        ELSE t[name]]

\* the caller's list object of a number with x appended
CallerAppended(t, object, x) ==
    Synced([t EXCEPT !.caller_lists =
                         [@ EXCEPT ![object] = Append(@, x)]])

\* lines 277, 381, 476: self.<name>.append(x) on a list of a tracker; when the
\* list is one of the caller's, every name of that list object shows x
ListAppended(t, name, x) ==
    IF t.held[name] = 0 THEN [t EXCEPT ![name] = Append(@, x)]
    ELSE CallerAppended(t, t.held[name], x)

\* line 483: self.feedback_analysis[feedback_type].append(rating); the
\* defaultdict builds the list of a key it does not have
AnalysisAppended(t, feedback_type, rating) ==
    IF DictGet(t.held.feedback_analysis, feedback_type, 0) = 0
    THEN [t EXCEPT !.feedback_analysis =
                       DictPut(@, feedback_type,
                               Append(DictGet(@, feedback_type, <<>>), rating))]
    ELSE CallerAppended(t, DictGet(t.held.feedback_analysis, feedback_type, 0),
                        rating)

\* the trackers' lists and the caller's become those of the record t
TrackersBecome(t) ==
    /\ diversity_history' = t.diversity_history
    /\ artist_diversity_history' = t.artist_diversity_history
    /\ genre_diversity_history' = t.genre_diversity_history
    /\ novelty_history' = t.novelty_history
    /\ artist_novelty_history' = t.artist_novelty_history
    /\ track_novelty_history' = t.track_novelty_history
    /\ satisfaction_history' = t.satisfaction_history
    /\ feedback_analysis' = t.feedback_analysis
    /\ held' = t.held
    /\ caller_lists' = t.caller_lists

\* lines 276-282: calculate_diversity_metrics appends its stamped metrics
DiversityRecorded(t, recs) ==
    ListAppended(t, "diversity_history",
                 [timestamp |-> now] @@ DiversityMetrics(recs))

\* lines 380-386: calculate_novelty_metrics appends its stamped metrics; on
\* an exception it appends nothing
NoveltyRecorded(t, recs, history) ==
    IF NoveltyMetrics(recs, history) = EmptyDict THEN t
    ELSE ListAppended(t, "novelty_history",
                      [timestamp |-> now] @@ NoveltyMetrics(recs, history))

\* lines 29-68: evaluate_recommendations(recommendations, user_data, context)
EvaluateRecommendations(recs, user_data, context) ==
    /\ vop \in {"init", "idle"}
    /\ vcount.evaluate < MaxEvaluate
    /\ vop' = "evaluate_recommendations"
    /\ vargs' = [recommendations |-> recs, user_data |-> user_data,
                 context |-> context]
    /\ vcount' = [vcount EXCEPT !.evaluate = @ + 1]
    /\ IF PopularityMeanRaises(recs)
       THEN /\ vresult' = EmptyDict
            /\ UNCHANGED <<metrics_history, diversity_history,
                           novelty_history, diversity_lists, novelty_lists,
                           satisfaction_history, feedback_analysis, holdings>>
       ELSE IF UserHistoryRaises(user_data)
       THEN /\ vresult' = EmptyDict
            /\ TrackersBecome(DiversityRecorded(Trackers, recs))
            /\ UNCHANGED metrics_history
       ELSE /\ TrackersBecome(
                   IF DictTruthy(user_data)
                   THEN NoveltyRecorded(DiversityRecorded(Trackers, recs), recs,
                                        UserHistoryOf(user_data))
                   ELSE DiversityRecorded(Trackers, recs))
            /\ metrics_history' =
                   Append(metrics_history,
                          EvaluationMetrics(recs, user_data, context, now))
            /\ vresult' = EvaluationMetrics(recs, user_data, context, now)
    /\ UNCHANGED <<now, user_feedback, feedback_ids, rating_distribution,
                   vfile>>

\* feedback dicts: a liked track, a skipped track, and one without a rating
FeedbackArgs ==
    { [rating |-> Dec(90), feedback_type |-> "like", track_id |-> "t1"],
      [rating |-> Dec(10), feedback_type |-> "skip"],
      EmptyDict }

\* line 479: int(rating * 10) / 10
RatingBucket(rating) == Ratio(FFloor(FMulInt(10, rating)), 10)

\* lines 467-476: the entry update_satisfaction stores
SatisfactionData(feedback, stamp) ==
    [timestamp |-> stamp,
     rating |-> Get(feedback, "rating", Dec(50)),
     feedback_type |-> Get(feedback, "feedback_type", "general"),
     track_id |-> Get(feedback, "track_id", ""),
     context |-> Get(feedback, "context", EmptyDict)]

\* lines 461-486: what update_satisfaction(feedback) writes; a feedback dict
\* with a numeric rating raises nowhere
SatisfactionUpdated(feedback) ==
    /\ TrackersBecome(
           AnalysisAppended(
               ListAppended(Trackers, "satisfaction_history",
                            SatisfactionData(feedback, now)),
               SatisfactionData(feedback, now).feedback_type,
               SatisfactionData(feedback, now).rating))
    /\ rating_distribution' =
           DictPut(rating_distribution,
                   RatingBucket(SatisfactionData(feedback, now).rating),
                   DictGet(rating_distribution,
                           RatingBucket(SatisfactionData(feedback, now).rating),
                           0) + 1)

\* lines 150-160: record_user_feedback(feedback), feedback being the dict
\* object obj. Line 153 writes the timestamp into the caller's dict and line
\* 154 appends that object itself, so every entry of user_feedback that is
\* the same object carries the new timestamp too
RecordFeedbackObject(obj, feedback) ==
    LET stamped == SetField(feedback, "timestamp", now)
    IN  /\ vop \in {"init", "idle"}
        /\ vcount.feedback < MaxFeedback
        /\ vop' = "record_user_feedback"
        /\ vargs' = [feedback |-> feedback]
        /\ vresult' = NoneArg
        /\ vcount' = [vcount EXCEPT !.feedback = @ + 1]
        /\ user_feedback' =
               Append(ListOf([i \in 1..Len(user_feedback) |->
                                 IF feedback_ids[i] = obj THEN stamped
                                 ELSE user_feedback[i]]),
                      stamped)
        /\ feedback_ids' = Append(feedback_ids, obj)
        /\ SatisfactionUpdated(stamped)
        /\ UNCHANGED <<now, metrics_history, vfile>>

\* record_user_feedback(feedback) with a dict that was not recorded before
RecordUserFeedback(feedback) ==
    RecordFeedbackObject(Len(feedback_ids) + 1, feedback)

\* record_user_feedback(feedback) with the dict that is entry i of
\* user_feedback, handed in once more
RecordUserFeedbackAgain(i) ==
    /\ i \in 1..Len(user_feedback)
    /\ RecordFeedbackObject(feedback_ids[i], user_feedback[i])

\* lines 461-486: satisfaction_tracker.update_satisfaction(feedback), called
\* on the tracker itself
UpdateSatisfaction(feedback) ==
    /\ vop \in {"init", "idle"}
    /\ vop' = "update_satisfaction"
    /\ vargs' = [feedback |-> feedback]
    /\ vresult' = NoneArg
    /\ vcount' = [vcount EXCEPT !.tracker = @ + 1]
    /\ SatisfactionUpdated(feedback)
    /\ UNCHANGED <<now, metrics_history, user_feedback, feedback_ids, vfile>>

\* lines 251-288: diversity_tracker.calculate_diversity_metrics(recommendations),
\* called on the tracker itself
CalculateDiversityMetrics(recs) ==
    /\ vop \in {"init", "idle"}
    /\ vop' = "calculate_diversity_metrics"
    /\ vargs' = [recommendations |-> recs]
    /\ vresult' = DiversityMetrics(recs)
    /\ vcount' = [vcount EXCEPT !.tracker = @ + 1]
    /\ TrackersBecome(DiversityRecorded(Trackers, recs))
    /\ UNCHANGED <<now, metrics_history, user_feedback, feedback_ids,
                   rating_distribution, vfile>>

\* lines 357-392: novelty_tracker.calculate_novelty_metrics(recommendations,
\* user_history), called on the tracker itself; on an exception it returns {}
\* and appends nothing
CalculateNoveltyMetrics(recs, history) ==
    /\ vop \in {"init", "idle"}
    /\ vop' = "calculate_novelty_metrics"
    /\ vargs' = [recommendations |-> recs, user_history |-> history]
    /\ vresult' = NoveltyMetrics(recs, history)
    /\ vcount' = [vcount EXCEPT !.tracker = @ + 1]
    /\ TrackersBecome(NoveltyRecorded(Trackers, recs, history))
    /\ UNCHANGED <<now, metrics_history, user_feedback, feedback_ids,
                   rating_distribution, vfile>>

\* time_period arguments
TimePeriods == {"all", "week", "month"}

\* lines 166-175, 497-506: the entries of the time period; timestamps and
\* datetime.now() are in days
WindowedAt(history, time_period, clock) ==
    LET Recent(days) ==
            LET After(entry) == entry.timestamp > clock - days
            IN  SelectSeq(history, After)
    IN  IF time_period = "week" THEN Recent(7)
        ELSE IF time_period = "month" THEN Recent(30)
        ELSE history

\* the window of a call made now
Windowed(history, time_period) == WindowedAt(history, time_period, now)

\* the ratings of a list of satisfaction entries, in order
RatingsOf(data) == [i \in 1..Len(data) |-> data[i].rating]

\* line 516: r > 0.7; line 517: r < 0.3
PositiveRatings(ratings) ==
    LET Positive(r) == FLess(Dec(70), r) IN SelectSeq(ratings, Positive)

NegativeRatings(ratings) ==
    LET Negative(r) == FLess(r, Dec(30)) IN SelectSeq(ratings, Negative)

\* lines 516-517: np.mean([1 for r in ratings if ...]), the mean of as many
\* ones as there are qualifying ratings
MeanOfOnes(qualifying) == NpMean([i \in 1..Len(qualifying) |-> FromInt(1)])

\* lines 520-526: the mean rating of each feedback type of the window
TypeMeans(recent) ==
    [type \in {recent[i].feedback_type : i \in 1..Len(recent)} |->
        LET OfType(entry) == entry.feedback_type = type
        IN  FMean(RatingsOf(SelectSeq(recent, OfType)))]

\* lines 488-532: get_satisfaction_summary(time_period); satisfaction_variance
\* is not kept, avg_satisfaction_<type> is by_type[type]
SatisfactionSummaryAt(time_period, clock) ==
    LET recent == WindowedAt(satisfaction_history, time_period, clock)
        ratings == RatingsOf(recent)
    IN  IF recent = <<>> THEN EmptyDict
        ELSE [avg_satisfaction |-> FMean(ratings),
              total_feedback |-> Len(ratings),
              positive_feedback_rate |-> MeanOfOnes(PositiveRatings(ratings)),
              negative_feedback_rate |-> MeanOfOnes(NegativeRatings(ratings)),
              by_type |-> TypeMeans(recent)]

\* lines 324-332, 428-436: _calculate_trend, 0.0 for fewer than two values,
\* else the slope np.polyfit fits to them, kept as a term of the values
CalculateTrend(values) ==
    IF Len(values) < 2 THEN FZero ELSE [polyfit_slope |-> values]

\* lines 290-322: get_diversity_summary(time_period); every entry of
\* diversity_history has the three keys
DiversitySummaryAt(time_period, clock) ==
    LET recent == WindowedAt(diversity_history, time_period, clock)
        Values(key) == [i \in 1..Len(recent) |-> recent[i][key]]
    IN  IF recent = <<>> THEN EmptyDict
        ELSE [avg_overall_diversity |-> FMean(Values("overall_diversity")),
              trend_overall_diversity |->
                  CalculateTrend(Values("overall_diversity")),
              avg_artist_diversity |-> FMean(Values("artist_diversity")),
              trend_artist_diversity |->
                  CalculateTrend(Values("artist_diversity")),
              avg_genre_diversity |-> FMean(Values("genre_diversity")),
              trend_genre_diversity |->
                  CalculateTrend(Values("genre_diversity"))]

\* lines 394-426: get_novelty_summary(time_period); every entry of
\* novelty_history has the keys (novelty_variance is not kept)
NoveltySummaryAt(time_period, clock) ==
    LET recent == WindowedAt(novelty_history, time_period, clock)
        Values(key) == [i \in 1..Len(recent) |-> recent[i][key]]
    IN  IF recent = <<>> THEN EmptyDict
        ELSE [avg_avg_novelty |-> FMean(Values("avg_novelty")),
              trend_avg_novelty |-> CalculateTrend(Values("avg_novelty")),
              avg_avg_artist_novelty |-> FMean(Values("avg_artist_novelty")),
              trend_avg_artist_novelty |->
                  CalculateTrend(Values("avg_artist_novelty"))]

\* np.mean of floats: nan when one of them is nan
MeanOfValues(values) ==
    IF \E i \in 1..Len(values) : values[i] = FNan THEN FNan ELSE FMean(values)

\* a value of a snapshot as a float; num_recommendations is an int
SnapshotValue(snapshot, key) ==
    IF key = "num_recommendations" THEN FromInt(snapshot[key])
    ELSE snapshot[key]

\* line 186: the values of the key in the snapshots that have it
SnapshotValues(recent, key) ==
    LET Has(snapshot) == key \in DOMAIN snapshot
        having == SelectSeq(recent, Has)
    IN  [i \in 1..Len(having) |-> SnapshotValue(having[i], key)]

\* lines 184-189: avg_<key> for every key of the first snapshot of the
\* window but its timestamp (every value of a snapshot is an int or a float):
\* the mean of the key's values in the snapshots that have it; the std_
\* values are not kept
SnapshotMeans(recent) ==
    LET keys == DOMAIN recent[1] \ {"timestamp"}
    IN  [name \in {"avg_" \o key : key \in keys} |->
            MeanOfValues(SnapshotValues(recent,
                             CHOOSE key \in keys : "avg_" \o key = name))]

\* lines 162-207: the summary get_evaluation_summary returns: {} without a
\* snapshot in the period, else the means of the snapshots, updated with
\* the satisfaction summary, the diversity summary and the novelty summary
\* in turn (a later update replaces a key of the same name)
EvaluationSummaryAt(time_period, clock) ==
    LET recent == WindowedAt(metrics_history, time_period, clock)
    IN  IF recent = <<>> THEN EmptyDict
        ELSE NoveltySummaryAt(time_period, clock)
             @@ DiversitySummaryAt(time_period, clock)
             @@ SatisfactionSummaryAt(time_period, clock)
             @@ SnapshotMeans(recent)

\* the summaries of a call made now
SatisfactionSummary(time_period) == SatisfactionSummaryAt(time_period, now)

DiversitySummary(time_period) == DiversitySummaryAt(time_period, now)

NoveltySummary(time_period) == NoveltySummaryAt(time_period, now)

EvaluationSummary(time_period) == EvaluationSummaryAt(time_period, now)

\* a summary call that drops the snapshots it has read
SummaryCallDropping(name, time_period, summary) ==
    /\ vop \in {"init", "idle"}
    /\ vop' = name
    /\ vargs' = [time_period |-> time_period]
    /\ vresult' = summary
    /\ metrics_history' = <<>>
    /\ UNCHANGED <<now, user_feedback, feedback_ids, holdings, diversity_lists,
                   novelty_lists, diversity_history, novelty_history,
                   satisfaction_history, rating_distribution,
                   feedback_analysis, vcount, vfile>>

\* a summary call changes nothing but what the caller holds
SummaryCall(name, time_period, summary) ==
    /\ vop \in {"init", "idle"}
    /\ vop' = name
    /\ vargs' = [time_period |-> time_period]
    /\ vresult' = summary
    /\ UNCHANGED <<now, metrics_history, user_feedback, feedback_ids,
                   holdings, diversity_lists, novelty_lists, diversity_history,
                   novelty_history, satisfaction_history, rating_distribution,
                   feedback_analysis, vcount, vfile>>

\* lines 162-207: get_evaluation_summary(time_period)
GetEvaluationSummary(time_period) ==
    SummaryCall("get_evaluation_summary", time_period,
                EvaluationSummary(time_period))

\* lines 488-532: satisfaction_tracker.get_satisfaction_summary(time_period)
GetSatisfactionSummary(time_period) ==
    SummaryCall("get_satisfaction_summary", time_period,
                SatisfactionSummary(time_period))

\* lines 290-322: diversity_tracker.get_diversity_summary(time_period)
GetDiversitySummary(time_period) ==
    SummaryCall("get_diversity_summary", time_period,
                DiversitySummary(time_period))

\* lines 394-426: novelty_tracker.get_novelty_summary(time_period)
GetNoveltySummary(time_period) ==
    SummaryCall("get_novelty_summary", time_period,
                NoveltySummary(time_period))

\* the summary methods
SummaryNames ==
    {"get_evaluation_summary", "get_diversity_summary", "get_novelty_summary",
     "get_satisfaction_summary"}

\* what the summary method of a name returns when the clock reads clock
SummaryOf(name, time_period, clock) ==
    CASE name = "get_evaluation_summary" ->
             EvaluationSummaryAt(time_period, clock)
      [] name = "get_diversity_summary" -> DiversitySummaryAt(time_period, clock)
      [] name = "get_novelty_summary" -> NoveltySummaryAt(time_period, clock)
      [] name = "get_satisfaction_summary" ->
             SatisfactionSummaryAt(time_period, clock)

\* the caller makes the summary call it has just made once more, days later
\* or at once, and holds the outcome of the first call (before) beside the
\* new one
RepeatSummary(days) ==
    /\ vop \in SummaryNames
    /\ "before" \notin DOMAIN vargs
    /\ now + days <= MaxDays
    /\ now' = now + days
    /\ UNCHANGED <<metrics_history, user_feedback, feedback_ids,
                   holdings, diversity_lists, novelty_lists, diversity_history,
                   novelty_history, satisfaction_history, rating_distribution,
                   feedback_analysis, vop, vcount, vfile>>
    /\ vargs' = [time_period |-> vargs.time_period, before |-> vresult]
    /\ vresult' = SummaryOf(vop, vargs.time_period, now + days)

\* the caller is done with the outcome of its last call
EvalReturn ==
    /\ vop \notin {"init", "idle"}
    /\ vop' = "idle"
    /\ vargs' = <<>>
    /\ vresult' = <<>>
    /\ UNCHANGED <<now, metrics_history, user_feedback, feedback_ids,
                   holdings, diversity_lists, novelty_lists, diversity_history,
                   novelty_history, satisfaction_history, rating_distribution,
                   feedback_analysis, vcount, vfile>>

\* days go by between two calls
PassDays == {20, MaxDays}

PassTime(days) ==
    /\ vop \in {"init", "idle"}
    /\ now + days <= MaxDays
    /\ now' = now + days
    /\ UNCHANGED <<metrics_history, user_feedback, feedback_ids,
                   holdings, diversity_lists, novelty_lists, diversity_history,
                   novelty_history, satisfaction_history, rating_distribution,
                   feedback_analysis, vop, vargs, vresult, vcount, vfile>>

\* a fresh evaluator; the pipeline, the selector and the allocator stay unused
EvalInit ==
    /\ EvaluatorIdle
    /\ NoConcurrency
    /\ FairIdle
    /\ SelectorIdle
    /\ PipelineIdle

EvalNext ==
    \/ /\ vop \in {"init", "idle"}
       /\ vcount.evaluate < MaxEvaluate
       /\ \E n \in 0..MaxEval :
              \E recs \in EvalTrackLists(n), user_data \in UserDataArgs,
                 context \in ContextArgs :
                  /\ EvaluateRecommendations(recs, user_data, context)
                  /\ UNCHANGED <<fvars, evars, dvars, cvars>>
    \/ \E time_period \in TimePeriods :
           GetEvaluationSummary(time_period) /\ UNCHANGED <<fvars, evars,
                                                            dvars, cvars>>
    \/ EvalReturn /\ UNCHANGED <<fvars, evars, dvars, cvars>>

\* one evaluator, evaluating bounded recommendation lists
SpecEval == EvalInit /\ [][EvalNext]_vars

\* the evaluation a feedback run may start with
FeedbackEvalList == WithIds(<<[artists |-> ArtistsOf("A"), popularity |-> 50]>>)

FeedbackInit ==
    /\ EvaluatorIdle
    /\ NoConcurrency
    /\ FairIdle
    /\ SelectorIdle
    /\ PipelineIdle

FeedbackNext ==
    \/ /\ vop = "init"
       /\ EvaluateRecommendations(FeedbackEvalList, NoneArg, NoneArg)
       /\ UNCHANGED <<fvars, evars, dvars, cvars>>
    \/ \E feedback \in FeedbackArgs :
           RecordUserFeedback(feedback) /\ UNCHANGED <<fvars, evars, dvars,
                                                       cvars>>
    \/ \E i \in 1..Len(user_feedback) :
           RecordUserFeedbackAgain(i) /\ UNCHANGED <<fvars, evars, dvars,
                                                     cvars>>
    \/ \E time_period \in TimePeriods :
           GetEvaluationSummary(time_period) /\ UNCHANGED <<fvars, evars,
                                                            dvars, cvars>>
    \/ \E time_period \in TimePeriods :
           GetSatisfactionSummary(time_period) /\ UNCHANGED <<fvars, evars,
                                                              dvars, cvars>>
    \/ \E days \in PassDays : PassTime(days) /\ UNCHANGED <<fvars, evars,
                                                            dvars, cvars>>
    \/ EvalReturn /\ UNCHANGED <<fvars, evars, dvars, cvars>>

\* one evaluator, taking feedback and giving summaries while days go by
SpecFeedback == FeedbackInit /\ [][FeedbackNext]_vars

\* ------------------------------------- save_evaluation_data and its reading
\* json.dump writes a float key of a dict as the text of the float: the keys
\* of rating_distribution are the tenths int(rating * 10) / 10
TenthTexts ==
    <<"0.0", "0.1", "0.2", "0.3", "0.4", "0.5", "0.6", "0.7", "0.8", "0.9", "1.0">>

\* the key json.dump writes for a key of rating_distribution: a text key
\* ([text |-> s], as json.load gave it) is written as it is
JsonKey(key) ==
    IF "text" \in DOMAIN key THEN key
    ELSE [text |-> TenthTexts[(CHOOSE t \in 0..10 : Ratio(t, 10) = key) + 1]]

\* helpers.py line 35: the members json.dump writes for rating_distribution,
\* one per key of the dict, in the dict's order (two keys of the dict that
\* are written as the same text give two members)
JsonObject(dict) ==
    ListOf([i \in 1..Len(dict) |-> [k |-> JsonKey(dict[i].k), v |-> dict[i].v]])

\* helpers.py line 55: the dict json.load builds of an object's members (a
\* later member of the same name replaces the value of the earlier one)
RECURSIVE JsonLoadObject(_)
JsonLoadObject(members) ==
    IF members = <<>> THEN <<>>
    ELSE LET before == JsonLoadObject(Take(members, Len(members) - 1))
             last == members[Len(members)]
         IN  DictPut(before, last.k, last.v)

\* evaluation.py lines 211-217 with get_all_data of the three trackers (lines
\* 334-340, 438-444, 534-540): the document save_evaluation_data writes; the
\* keys of feedback_analysis are texts already
SavedDocument ==
    [metrics_history |-> metrics_history,
     user_feedback |-> user_feedback,
     diversity_data |->
         [diversity_history |-> diversity_history,
          artist_diversity_history |-> artist_diversity_history,
          genre_diversity_history |-> genre_diversity_history],
     novelty_data |->
         [novelty_history |-> novelty_history,
          artist_novelty_history |-> artist_novelty_history,
          track_novelty_history |-> track_novelty_history],
     satisfaction_data |->
         [satisfaction_history |-> satisfaction_history,
          rating_distribution |-> JsonObject(rating_distribution),
          feedback_analysis |-> feedback_analysis]]

\* lines 209-224: save_evaluation_data(filepath)
SaveEvaluationData ==
    /\ vop \in {"init", "idle"}
    /\ vop' = "save_evaluation_data"
    /\ vargs' = <<>>
    /\ vresult' = NoneArg
    /\ vcount' = [vcount EXCEPT !.save = @ + 1]
    /\ vfile' = SavedDocument
    /\ UNCHANGED <<now, metrics_history, user_feedback, feedback_ids,
                   holdings, diversity_lists, novelty_lists, diversity_history,
                   novelty_history, satisfaction_history, rating_distribution,
                   feedback_analysis>>

\* lines 542-546: what satisfaction_tracker.load_data makes of the
\* rating_distribution it is given
LoadedDistributionFirstOnly(members) ==
    JsonLoadObject(Take(members, Min(Len(members), 1)))

LoadedDistribution(members) == JsonLoadObject(members)

\* lines 226-240: load_evaluation_data(filepath), with load_data of the three
\* trackers (lines 342-346, 446-450, 542-546); without a file load_data of
\* helpers.py returns None and nothing is replaced. The lists json.load
\* builds are new objects, which no caller holds
LoadEvaluationData ==
    /\ vop \in {"init", "idle"}
    /\ vop' = "load_evaluation_data"
    /\ vargs' = <<>>
    /\ vresult' = NoneArg
    /\ vcount' = [vcount EXCEPT !.load = @ + 1]
    /\ IF vfile = NoFile
       THEN UNCHANGED <<metrics_history, user_feedback, feedback_ids,
                        holdings, diversity_lists, novelty_lists,
                        diversity_history, novelty_history,
                        satisfaction_history, rating_distribution,
                        feedback_analysis>>
       ELSE /\ metrics_history' = vfile.metrics_history
            /\ user_feedback' = vfile.user_feedback
            /\ feedback_ids' = [i \in 1..Len(vfile.user_feedback) |-> i]
            /\ diversity_history' = vfile.diversity_data.diversity_history
            /\ artist_diversity_history' =
                   vfile.diversity_data.artist_diversity_history
            /\ genre_diversity_history' =
                   vfile.diversity_data.genre_diversity_history
            /\ novelty_history' = vfile.novelty_data.novelty_history
            /\ artist_novelty_history' =
                   vfile.novelty_data.artist_novelty_history
            /\ track_novelty_history' = vfile.novelty_data.track_novelty_history
            /\ satisfaction_history' =
                   vfile.satisfaction_data.satisfaction_history
            /\ rating_distribution' =
                   LoadedDistribution(vfile.satisfaction_data.rating_distribution)
            /\ feedback_analysis' = vfile.satisfaction_data.feedback_analysis
            /\ held' = NoneHeld
            /\ UNCHANGED caller_lists
    /\ UNCHANGED <<now, vfile>>

\* lines 344-346, 448-450, 544: self.<name> = data.get(<name>, []) for the
\* names of one tracker. The tracker keeps the list object of the caller's
\* data, not a copy; data gives the caller's list under a key by its number
ListsLoaded(t, data, names) ==
    Synced([name \in DOMAIN t |->
               IF name \in names THEN <<>>
               ELSE IF name = "held"
               THEN [n \in DOMAIN t.held |->
                        IF n \in names THEN Get(data, n, 0) ELSE t.held[n]]
               ELSE t[name]])

\* line 546: defaultdict(list, data.get('feedback_analysis', {})): a new
\* dict whose values are the caller's list objects
AnalysisLoaded(t, data) ==
    Synced([t EXCEPT
               !.feedback_analysis = Get(data, "feedback_analysis", <<>>),
               !.held = [@ EXCEPT !.feedback_analysis =
                                      Get(data, "feedback_analysis", <<>>)]])

\* lines 342-346: diversity_tracker.load_data(data), called on the tracker
\* itself
DiversityLoadData(data) ==
    /\ vop \in {"init", "idle"}
    /\ vop' = "diversity_load_data"
    /\ vargs' = [data |-> data]
    /\ vresult' = NoneArg
    /\ vcount' = [vcount EXCEPT !.tracker = @ + 1]
    /\ TrackersBecome(
           ListsLoaded(Trackers, data,
                       {"diversity_history", "artist_diversity_history",
                        "genre_diversity_history"}))
    /\ UNCHANGED <<now, metrics_history, user_feedback, feedback_ids,
                   rating_distribution, vfile>>

\* lines 446-450: novelty_tracker.load_data(data), called on the tracker itself
NoveltyLoadData(data) ==
    /\ vop \in {"init", "idle"}
    /\ vop' = "novelty_load_data"
    /\ vargs' = [data |-> data]
    /\ vresult' = NoneArg
    /\ vcount' = [vcount EXCEPT !.tracker = @ + 1]
    /\ TrackersBecome(
           ListsLoaded(Trackers, data,
                       {"novelty_history", "artist_novelty_history",
                        "track_novelty_history"}))
    /\ UNCHANGED <<now, metrics_history, user_feedback, feedback_ids,
                   rating_distribution, vfile>>

\* lines 542-546: satisfaction_tracker.load_data(data), called on the tracker
\* itself; the two defaultdicts are new dicts built of the dicts of data,
\* the counts of rating_distribution copied, the lists of feedback_analysis
\* kept
SatisfactionLoadData(data) ==
    /\ vop \in {"init", "idle"}
    /\ vop' = "satisfaction_load_data"
    /\ vargs' = [data |-> data]
    /\ vresult' = NoneArg
    /\ vcount' = [vcount EXCEPT !.tracker = @ + 1]
    /\ TrackersBecome(
           AnalysisLoaded(ListsLoaded(Trackers, data, {"satisfaction_history"}),
                          data))
    /\ rating_distribution' = Get(data, "rating_distribution", <<>>)
    /\ UNCHANGED <<now, metrics_history, user_feedback, feedback_ids, vfile>>

\* calls of a session that saves and loads: feedback, save and load calls
SessionCalls == vcount.feedback + vcount.save + vcount.load

\* the evaluations a saving session may start with
PersistEvalArgs ==
    { [recs |-> <<>>, user_data |-> NoneArg, context |-> NoneArg],
      [recs |-> FeedbackEvalList,
       user_data |-> [top_tracks |-> <<[id |-> "t1"], [id |-> "A"]>>],
       context |-> [time_category |-> "morning", mood |-> "melancholic"]] }

PersistInit ==
    /\ EvaluatorIdle
    /\ NoConcurrency
    /\ FairIdle
    /\ SelectorIdle
    /\ PipelineIdle

PersistNext ==
    \/ /\ vop = "init"
       /\ \E args \in PersistEvalArgs :
              /\ EvaluateRecommendations(args.recs, args.user_data, args.context)
              /\ UNCHANGED <<fvars, evars, dvars, cvars>>
    \/ /\ SessionCalls < MaxSession
       /\ \E feedback \in FeedbackArgs :
              RecordUserFeedback(feedback) /\ UNCHANGED <<fvars, evars, dvars,
                                                          cvars>>
    \/ /\ SessionCalls < MaxSession
       /\ \E i \in 1..Len(user_feedback) :
              RecordUserFeedbackAgain(i) /\ UNCHANGED <<fvars, evars, dvars,
                                                        cvars>>
    \/ /\ SessionCalls < MaxSession
       /\ SaveEvaluationData
       /\ UNCHANGED <<fvars, evars, dvars, cvars>>
    \/ /\ SessionCalls < MaxSession
       /\ LoadEvaluationData
       /\ UNCHANGED <<fvars, evars, dvars, cvars>>
    \/ EvalReturn /\ UNCHANGED <<fvars, evars, dvars, cvars>>

\* one evaluator that takes feedback and saves and loads its data
SpecPersist == PersistInit /\ [][PersistNext]_vars

\* ------------------------------------------- the summaries, read again

\* the calls that write a history: evaluations, feedbacks and calls made on
\* a tracker itself
RecordedCalls == vcount.evaluate + vcount.feedback + vcount.tracker

\* the arguments of calculate_diversity_metrics and calculate_novelty_metrics
\* called on the trackers: one track by artist A with the track known or
\* unknown to the user, and a track whose artists list is empty
TrackerArgs ==
    { [recs |-> FeedbackEvalList, user_history |-> <<"t1">>],
      [recs |-> FeedbackEvalList, user_history |-> <<>>],
      [recs |-> WithIds(<<[artists |-> <<>>, popularity |-> 50]>>),
       user_history |-> <<>>] }

\* the list objects the caller has built for the data it hands to load_data,
\* each with one entry
CallerLists ==
    << <<[timestamp |-> 0] @@ DiversityMetrics(FeedbackEvalList)>>,
       <<Dec(50)>>,
       <<FromInt(1)>>,
       <<[timestamp |-> 0] @@ NoveltyMetrics(FeedbackEvalList, <<>>)>>,
       <<FromInt(1)>>,
       <<Milli(1500)>>,
       <<SatisfactionData([rating |-> Dec(90), feedback_type |-> "like"], 0)>>,
       <<Dec(90)>> >>

\* the dicts handed to the trackers' load_data, a list given by its number
\* among the caller's: {}, a dict with a list of its own under each key, and
\* a dict with one list under two keys
DiversityDataArgs ==
    { EmptyDict,
      [diversity_history |-> 1, artist_diversity_history |-> 2,
       genre_diversity_history |-> 3],
      [diversity_history |-> 1, artist_diversity_history |-> 1] }

NoveltyDataArgs ==
    { EmptyDict,
      [novelty_history |-> 4, artist_novelty_history |-> 5,
       track_novelty_history |-> 6] }

SatisfactionDataArgs ==
    { EmptyDict,
      [satisfaction_history |-> 7,
       rating_distribution |-> DictPut(<<>>, Dec(90), 1),
       feedback_analysis |-> DictPut(<<>>, "like", 8)],
      [satisfaction_history |-> 7,
       rating_distribution |-> DictPut(<<>>, Dec(90), 1),
       feedback_analysis |-> DictPut(DictPut(<<>>, "like", 8), "skip", 8)] }

\* an evaluator as constructed, and the lists its caller has built
SummariesInit ==
    /\ EvaluatorBuilt
    /\ caller_lists = CallerLists
    /\ NoConcurrency
    /\ FairIdle
    /\ SelectorIdle
    /\ PipelineIdle

SummariesNext ==
    \/ /\ vop \in {"init", "idle"}
       /\ RecordedCalls < MaxRecorded
       /\ \E args \in PersistEvalArgs :
              /\ EvaluateRecommendations(args.recs, args.user_data, args.context)
              /\ UNCHANGED <<fvars, evars, dvars, cvars>>
    \/ /\ vop \in {"init", "idle"}
       /\ RecordedCalls < MaxRecorded
       /\ \E feedback \in FeedbackArgs :
              RecordUserFeedback(feedback) /\ UNCHANGED <<fvars, evars, dvars,
                                                          cvars>>
    \/ /\ vop \in {"init", "idle"}
       /\ RecordedCalls < MaxRecorded
       /\ \E i \in 1..Len(user_feedback) :
              RecordUserFeedbackAgain(i) /\ UNCHANGED <<fvars, evars, dvars,
                                                        cvars>>
    \/ /\ vop \in {"init", "idle"}
       /\ RecordedCalls < MaxRecorded
       /\ \E feedback \in FeedbackArgs :
              UpdateSatisfaction(feedback) /\ UNCHANGED <<fvars, evars, dvars,
                                                          cvars>>
    \/ /\ vop \in {"init", "idle"}
       /\ RecordedCalls < MaxRecorded
       /\ \E args \in TrackerArgs :
              /\ CalculateDiversityMetrics(args.recs)
              /\ UNCHANGED <<fvars, evars, dvars, cvars>>
    \/ /\ vop \in {"init", "idle"}
       /\ RecordedCalls < MaxRecorded
       /\ \E args \in TrackerArgs :
              /\ CalculateNoveltyMetrics(args.recs, args.user_history)
              /\ UNCHANGED <<fvars, evars, dvars, cvars>>
    \/ /\ vop \in {"init", "idle"}
       /\ RecordedCalls < MaxRecorded
       /\ \E data \in DiversityDataArgs :
              DiversityLoadData(data) /\ UNCHANGED <<fvars, evars, dvars,
                                                     cvars>>
    \/ /\ vop \in {"init", "idle"}
       /\ RecordedCalls < MaxRecorded
       /\ \E data \in NoveltyDataArgs :
              NoveltyLoadData(data) /\ UNCHANGED <<fvars, evars, dvars, cvars>>
    \/ /\ vop \in {"init", "idle"}
       /\ RecordedCalls < MaxRecorded
       /\ \E data \in SatisfactionDataArgs :
              SatisfactionLoadData(data) /\ UNCHANGED <<fvars, evars, dvars,
                                                        cvars>>
    \/ \E time_period \in TimePeriods :
           GetEvaluationSummary(time_period) /\ UNCHANGED <<fvars, evars,
                                                            dvars, cvars>>
    \/ \E time_period \in TimePeriods :
           GetDiversitySummary(time_period) /\ UNCHANGED <<fvars, evars, dvars,
                                                           cvars>>
    \/ \E time_period \in TimePeriods :
           GetNoveltySummary(time_period) /\ UNCHANGED <<fvars, evars, dvars,
                                                         cvars>>
    \/ \E time_period \in TimePeriods :
           GetSatisfactionSummary(time_period) /\ UNCHANGED <<fvars, evars,
                                                              dvars, cvars>>
    \/ \E days \in PassDays \cup {0} :
           RepeatSummary(days) /\ UNCHANGED <<fvars, evars, dvars, cvars>>
    \/ \E days \in PassDays : PassTime(days) /\ UNCHANGED <<fvars, evars,
                                                            dvars, cvars>>
    \/ EvalReturn /\ UNCHANGED <<fvars, evars, dvars, cvars>>

\* one evaluator whose summaries are read, once and again, while days go by
SpecSummaries == SummariesInit /\ [][SummariesNext]_vars

\* ------------------------------- sessions, each with components of its own
\* the list attributes of a session's components
SessionLists ==
    <<"exploration_history", "metrics_history", "user_feedback",
      "diversity_history", "artist_diversity_history",
      "genre_diversity_history", "novelty_history", "artist_novelty_history",
      "track_novelty_history", "satisfaction_history">>

\* models.py lines 381-384, evaluation.py lines 21-27, 245-249, 351-355,
\* 455-459, debiasing.py lines 205-208: the components a session builds on
\* the heap h; every `[]` of an __init__ is a new list object. The novelty
\* user_history is replaced as a whole and never written in place, and is kept
\* by value
SessionBuilt(h) ==
    [heap |-> h \o [i \in 1..Len(SessionLists) |-> <<>>],
     session |->
         [exploration_rate |-> Dec(30), user_history |-> <<>>]
         @@ [name \in Range(SessionLists) |->
                Len(h) + (CHOOSE i \in 1..Len(SessionLists) :
                              SessionLists[i] = name)]]

\* list.append(x) on the list object at an address
HeapAppended(h, address, x) == [h EXCEPT ![address] = Append(@, x)]

\* evaluation.py lines 29-68: evaluate_recommendations on the components of
\* a session, on the day call.day
SessionEvaluated(h, session, call) ==
    LET recs == call.recommendations
        user_data == call.user_data
        h1 == HeapAppended(h, session.diversity_history,
                           [timestamp |-> call.day] @@ DiversityMetrics(recs))
        novelty == IF DictTruthy(user_data)
                   THEN NoveltyMetrics(recs, UserHistoryOf(user_data))
                   ELSE EmptyDict
        h2 == IF novelty = EmptyDict THEN h1
              ELSE HeapAppended(h1, session.novelty_history,
                                [timestamp |-> call.day] @@ novelty)
    IN  IF PopularityMeanRaises(recs) THEN h
        ELSE IF UserHistoryRaises(user_data) THEN h1
        ELSE HeapAppended(h2, session.metrics_history,
                          EvaluationMetrics(recs, user_data, call.context,
                                            call.day))

\* the entries of a user_feedback list are [obj, dict]: the dict object an
\* entry is (equal obj: one object) and the dict's fields
FeedbackEntries(list) ==
    {list[i] : i \in {j \in 1..Len(list) : "obj" \in DOMAIN list[j]}}

\* the dict objects recorded so far, by whichever session
RecordedFeedback(h) == UNION {FeedbackEntries(h[a]) : a \in 1..Len(h)}

\* a dict object the caller builds for a call
NewObject(h) == Cardinality({entry.obj : entry \in RecordedFeedback(h)}) + 1

\* evaluation.py lines 150-160 and 461-476: record_user_feedback on the
\* components of a session, with the dict object call.obj, on the day
\* call.day. Line 153 writes the timestamp into the caller's dict and line
\* 154 appends that object itself: every entry of a user_feedback list that
\* is this object, of whichever session, carries the new timestamp too
SessionRecorded(h, session, call) ==
    LET stamped == [obj |-> call.obj,
                    dict |-> SetField(call.feedback, "timestamp", call.day)]
        Written(list) ==
            [i \in 1..Len(list) |->
                IF "obj" \in DOMAIN list[i] /\ list[i].obj = call.obj
                THEN stamped ELSE list[i]]
        written == ListOf([a \in 1..Len(h) |-> ListOf(Written(h[a]))])
    IN  HeapAppended(HeapAppended(written, session.user_feedback, stamped),
                     session.satisfaction_history,
                     SatisfactionData(stamped.dict, call.day))

\* a call of a session on its own components: the heap and the session's
\* attributes after it
SessionApplied(h, session, call) ==
    CASE call.op = "update_exploration_rate" ->
             [heap |-> h,
              session |-> [session EXCEPT !.exploration_rate =
                               UpdatedRate(@, call.user_feedback)]]
      [] call.op = "set_user_history" ->
             [heap |-> h,
              session |-> [session EXCEPT !.user_history = call.user_history]]
      [] call.op = "evaluate_recommendations" ->
             [heap |-> SessionEvaluated(h, session, call), session |-> session]
      [] call.op = "record_user_feedback" ->
             [heap |-> SessionRecorded(h, session, call), session |-> session]

\* the calls a session makes, a feedback dict being built for the call
SessionCallArgs ==
    { [op |-> "update_exploration_rate",
       user_feedback |-> <<[is_exploration |-> TRUE, rating |-> Dec(r)]>>] :
          r \in {10, 90} }
    \cup {[op |-> "set_user_history", user_history |-> <<"X", "t1">>]}
    \cup {[op |-> "evaluate_recommendations",
           recommendations |-> FeedbackEvalList,
           user_data |-> [top_tracks |-> <<[id |-> "t1"], [id |-> "A"]>>],
           context |-> NoneArg]}
    \cup {[op |-> "record_user_feedback", feedback |-> f] :
             f \in {[rating |-> Dec(90), feedback_type |-> "like"], EmptyDict}}

\* the dicts of a user_feedback list
DictsOf(list) == [i \in 1..Len(list) |-> list[i].dict]

\* the attributes of a session with the lists in the place of their addresses
SessionContents(h, session) ==
    [name \in DOMAIN session |->
        IF name = "user_feedback" THEN DictsOf(h[session[name]])
        ELSE IF name \in Range(SessionLists) THEN h[session[name]]
        ELSE session[name]]

\* the components a session has when it makes the calls on its own
RECURSIVE RunAlone(_)
RunAlone(calls) ==
    IF calls = <<>> THEN SessionBuilt(<<>>)
    ELSE LET before == RunAlone(Take(calls, Len(calls) - 1))
         IN  SessionApplied(before.heap, before.session, calls[Len(calls)])

\* a call as it is made on the heap h on a day: with the day and, when a
\* feedback dict is built for it, with the new dict object
CallMade(h, call, day) ==
    [day |-> day]
    @@ (IF call.op = "record_user_feedback" /\ "obj" \notin DOMAIN call
        THEN [obj |-> NewObject(h)] ELSE EmptyDict)
    @@ call

\* the session s makes a call
SessionCall(s, call) ==
    LET made == CallMade(heap, call, now)
        after == SessionApplied(heap, sessions[s], made)
    IN  /\ Len(slog[s]) < MaxCalls
        /\ heap' = after.heap
        /\ sessions' = [sessions EXCEPT ![s] = after.session]
        /\ slog' = [slog EXCEPT ![s] = Append(@, made)]
        /\ UNCHANGED <<threads, rate0>>

\* the session s calls record_user_feedback with a dict object that was
\* recorded before, by itself or by the other session
SessionRecordAgain(s, entry) ==
    SessionCall(s, [op |-> "record_user_feedback", feedback |-> entry.dict,
                    obj |-> entry.obj])

\* two sessions, built one after the other
SessionsInit ==
    /\ EvaluatorIdle
    /\ FairIdle
    /\ SelectorIdle
    /\ PipelineIdle
    /\ LET first == SessionBuilt(<<>>)
           second == SessionBuilt(first.heap)
       IN  /\ heap = second.heap
           /\ sessions = <<first.session, second.session>>
    /\ slog = <<<<>>, <<>>>>
    /\ threads = <<>>
    /\ rate0 = FZero

SessionsNext ==
    \/ \E s \in 1..2 :
           /\ Len(slog[s]) < MaxCalls
           /\ \E call \in SessionCallArgs :
                  /\ SessionCall(s, call)
                  /\ UNCHANGED <<fvars, evars, dvars, vvars>>
    \/ \E s \in 1..2 :
           /\ Len(slog[s]) < MaxCalls
           /\ \E entry \in RecordedFeedback(heap) :
                  /\ SessionRecordAgain(s, entry)
                  /\ UNCHANGED <<fvars, evars, dvars, vvars>>
    \/ \E days \in PassDays :
           PassTime(days) /\ UNCHANGED <<fvars, evars, dvars, cvars>>

\* two sessions whose calls interleave while days go by
SpecSessions == SessionsInit /\ [][SessionsNext]_vars

\* ------------------------- threads that update the rate of one selector
\* the feedback batches of the threads: none, exploration ratings of 0.9, of
\* 0.1 and of 0.5, and an event that is not flagged
ThreadBatches ==
    {<<>>, <<[rating |-> Dec(90)]>>}
    \cup {<<[is_exploration |-> TRUE, rating |-> Dec(r)]>> : r \in {10, 50, 90}}

\* rates of the documented range [0.1, 0.5] a selector is built with
ThreadRates == {Dec(10), Dec(11), Dec(30), Dec(46), Dec(50)}

\* models.py lines 445-464: the branch a call takes on its batch, which reads
\* nothing of the selector: "raise" (line 461), "lower" (line 464) or "done"
UpdateBranch(fb) ==
    LET sat == ExplorationSatisfaction(fb)
    IN  IF fb = <<>> \/ sat = <<>> THEN "done"
        ELSE IF FLess(Dec(70), FMean(sat)) THEN "raise"
        ELSE IF FLess(FMean(sat), Dec(30)) THEN "lower"
        ELSE "done"

\* a write of the rate moved by 0.05 as it is
WrittenRateUnclamped(branch, read) ==
    IF branch = "raise" THEN FAdd(read, Dec(5)) ELSE FSub(read, Dec(5))

\* lines 461 and 464: the rate a thread writes, having read the rate read
WrittenRate(branch, read) ==
    IF branch = "raise" THEN RaisedRate(read) ELSE LoweredRate(read)

\* lines 443-458: the thread t enters update_exploration_rate(fb) and decides
\* on its branch
ThreadEnters(t, fb) ==
    /\ threads[t].pc = "start"
    /\ threads' = [threads EXCEPT ![t].pc = UpdateBranch(fb), ![t].fb = fb]
    /\ UNCHANGED <<heap, sessions, slog, rate0>>
    /\ UNCHANGED evars

\* lines 461 and 464, first half: the thread t reads self.exploration_rate
ThreadReads(t) ==
    /\ threads[t].pc \in {"raise", "lower"}
    /\ threads' = [threads EXCEPT ![t].pc = "write",
                                  ![t].branch = threads[t].pc,
                                  ![t].read = exploration_rate]
    /\ UNCHANGED <<heap, sessions, slog, rate0>>
    /\ UNCHANGED evars

\* lines 461 and 464, second half: the thread t writes self.exploration_rate
ThreadWrites(t) ==
    /\ threads[t].pc = "write"
    /\ exploration_rate' = WrittenRate(threads[t].branch, threads[t].read)
    /\ threads' = [threads EXCEPT ![t].pc = "done"]
    /\ UNCHANGED <<heap, sessions, slog, rate0>>
    /\ UNCHANGED <<exploration_history, eop, efeedback, erate_before, epools,
                   eresult, ehighs>>

\* a selector built with a rate of the range, and two threads about to call
\* update_exploration_rate on it
ThreadsInit ==
    /\ EvaluatorIdle
    /\ FairIdle
    /\ PipelineIdle
    /\ exploration_rate \in ThreadRates
    /\ rate0 = exploration_rate
    /\ erate_before = exploration_rate
    /\ exploration_history = <<>>
    /\ eop = "init"
    /\ efeedback = <<>>
    /\ epools = NoPools
    /\ eresult = <<>>
    /\ ehighs = 0 - 1
    /\ threads = [t \in 1..2 |->
                     [pc |-> "start", fb |-> <<>>, branch |-> "none",
                      read |-> FZero]]
    /\ heap = <<>>
    /\ sessions = <<>>
    /\ slog = <<>>

ThreadsNext ==
    \/ \E t \in 1..2 :
           /\ threads[t].pc = "start"
           /\ \E fb \in ThreadBatches :
                  ThreadEnters(t, fb) /\ UNCHANGED <<fvars, dvars, vvars>>
    \/ \E t \in 1..2 :
           ThreadReads(t) /\ UNCHANGED <<fvars, dvars, vvars>>
    \/ \E t \in 1..2 :
           ThreadWrites(t) /\ UNCHANGED <<fvars, dvars, vvars>>

\* threads whose reads and writes of the rate interleave
SpecThreads == ThreadsInit /\ [][ThreadsNext]_vars

\* ------------------------------------------------------------ claims C1, C2
\* an artist under its cap that still has unconsumed items
EligibleRemains ==
    \E i \in 1..Len(artist_tracks) :
        /\ DictGet(artist_counts, artist_tracks[i].k, 0) < max_tracks_per_artist
        /\ artist_tracks[i].v # <<>>

\* the iteration about to run pops an item of the artist it selects
IterationConsumes ==
    LET i == SelectedArtist(artist_tracks, artist_counts, max_tracks_per_artist)
    IN  i # 0 /\ artist_tracks[i].v # <<>>

\* C1: apply_fairness_constraints terminates: at the head of the selection
\* loop, the loop stops when the result has reached max_recommendations or no
\* eligible artist (under its cap, with unconsumed items) remains, and every
\* iteration that does not stop consumes one item of the finite candidate list.
C1_Terminates ==
    fpc = "loop" =>
        /\ (Len(selected_tracks) >= max_recommendations \/ ~EligibleRemains
                => LoopExits)
        /\ (~LoopExits => IterationConsumes)

\* C1, as a property of behaviours: every call returns
C1_EventuallyReturns == <>(fpc = "done")

\* the primary artist of a track as the specification reads it: "unknown" when
\* the track has no artists
SpecArtist(track) ==
    IF ArtistsRaises(track) THEN "unknown" ELSE PrimaryArtist(track)

\* how many tracks of artist a the list holds
CountOf(list, a) == Cardinality({i \in 1..Len(list) : SpecArtist(list[i]) = a})

\* no artist above max(1, M // A), and at most M items
WithinCap(list) ==
    LET artists == {SpecArtist(tracks[i]) : i \in 1..Len(tracks)}
        cap == Max(1, max_recommendations \div Cardinality(artists))
    IN  /\ Len(list) <= max_recommendations
        /\ \A a \in artists : CountOf(list, a) <= cap

\* C2: with A >= 1 distinct primary artists, in every state of the selection
\* loop and in the returned result no artist has more than max(1, M // A)
\* items selected and at most M items are selected.
C2_PerArtistCap ==
    tracks # <<>> =>
        /\ (fpc = "loop" => WithinCap(selected_tracks))
        /\ (fpc = "done" => WithinCap(fresult))

\* ------------------------------------------------------- claims C3 to C6
\* C3: in every reachable state of a selector, whatever rate it was built
\* with and whatever updates and selections followed, exploration_rate lies in
\* the closed interval [0.1, 0.5].
C3_RateInRange ==
    FLeq(Dec(10), exploration_rate) /\ FLeq(exploration_rate, Dec(50))

\* C4: from the default rate 0.3, one update with a batch whose exploration
\* events have mean rating 0.9 leaves exactly 0.35, five such updates in a row
\* leave exactly 0.5, and no step of such a run exceeds 0.5.
C4_HighBatchesRaiseToCap ==
    /\ (ehighs = 1 => exploration_rate = Dec(35))
    /\ (ehighs = 5 => exploration_rate = Dec(50))
    /\ (ehighs >= 0 => FLeq(exploration_rate, Dec(50)))

C4_Witness ==
    /\ eop = "update"
    /\ ehighs = 5
    /\ exploration_rate = Dec(50)
    /\ FLess(erate_before, Dec(50))

\* the positions of the events flagged is_exploration
Flagged(fb) == {i \in 1..Len(fb) : Get(fb[i], "is_exploration", FALSE)}

\* C5: the update averages exactly the events flagged is_exploration and sets
\* the rate to min(0.5, rate + 0.05) when that mean is above 0.7, to
\* max(0.1, rate - 0.05) when it is below 0.3, and leaves it otherwise, a mean
\* of exactly 0.7 or 0.3 included.
C5_UpdateRule ==
    (eop = "update" /\ Flagged(efeedback) # {}) =>
        LET idx == Flagged(efeedback)
            ratings == [j \in 1..Cardinality(idx) |->
                          LET i == CHOOSE i \in idx :
                                     Cardinality({k \in idx : k < i}) = j - 1
                          IN  Get(efeedback[i], "rating", Dec(50))]
            mean == FMean(ratings)
        IN  exploration_rate =
                IF FLess(Dec(70), mean)
                THEN FMin(Dec(50), FAdd(erate_before, Dec(5)))
                ELSE IF FLess(mean, Dec(30))
                THEN (IF FLess(erate_before, Dec(5)) THEN Dec(10)
                      ELSE FMax(Dec(10), FSub(erate_before, Dec(5))))
                ELSE erate_before

C5_Witness ==
    /\ eop = "update"
    /\ Flagged(efeedback) # {}
    /\ Flagged(efeedback) # 1..Len(efeedback)
    /\ FMean(ExplorationSatisfaction(efeedback)) = Dec(70)
    /\ \E i \in 1..Len(efeedback) :
           i \notin Flagged(efeedback) /\ Get(efeedback[i], "rating", Dec(50)) = Dec(90)
    /\ exploration_rate = erate_before

\* C6: an update with an empty batch, or with a batch holding no event flagged
\* is_exploration, changes neither exploration_rate nor any other field of
\* the selector.
C6_NoExplorationEventsNoChange ==
    [][(eop' = "update" /\ Flagged(efeedback') = {}) =>
          /\ exploration_rate' = exploration_rate
          /\ exploration_history' = exploration_history]_vars

C6_Witness ==
    /\ eop = "update"
    /\ efeedback # <<>>
    /\ Flagged(efeedback) = {}
    /\ \E i \in 1..Len(efeedback) : Get(efeedback[i], "rating", Dec(50)) = Dec(10)
    /\ exploration_rate = erate_before

\* ---------------------------------------------------------- claims C8, C9
\* the ids of a list
Ids(l) == {l[i].id : i \in 1..Len(l)}

\* how many items of the result come from the pool
FromPool(result, pool) ==
    Cardinality({i \in 1..Len(result) : result[i] \in Range(pool)})

\* C8: a selection of N at rate r requests floor(N * r) exploration slots and
\* the rest as exploitation slots; the result holds exactly
\* min(slots, pool size) candidates of each pool, never more than N items,
\* and with N = 10, r = 0.3 and large pools exactly 3 and 7.
C8_SplitSizes ==
    eop = "select" =>
        LET n_explore == FFloor(FMulInt(epools.n, exploration_rate))
            n_exploit == epools.n - n_explore
        IN  /\ FromPool(eresult, epools.exploit) = Min(n_exploit, Len(epools.exploit))
            /\ FromPool(eresult, epools.explore) = Min(n_explore, Len(epools.explore))
            /\ Len(eresult) <= epools.n
            /\ (epools.n = 10 /\ exploration_rate = Dec(30)
                  /\ Len(epools.exploit) >= 7 /\ Len(epools.explore) >= 3
                  => /\ FromPool(eresult, epools.explore) = 3
                     /\ FromPool(eresult, epools.exploit) = 7)

C8_Witness ==
    /\ eop = "select"
    /\ epools.n = 10
    /\ exploration_rate = Dec(30)
    /\ FromPool(eresult, epools.explore) = 3
    /\ FromPool(eresult, epools.exploit) = 7

\* the first k items of pool in a stable descending sort by keys: those with
\* fewer than k items ahead of them (a larger key, or an equal key and an
\* earlier position)
TopStable(pool, keys, k) ==
    {pool[i] : i \in {i \in 1..Len(pool) :
        Cardinality({j \in 1..Len(pool) :
            keys[j] > keys[i] \/ (keys[j] = keys[i] /\ j < i)}) < k}}

\* C9: for disjoint pools the returned items are exactly the first n_exploit
\* exploitation candidates by stable descending recommendation score together
\* with the first n_explore exploration candidates by stable descending
\* 0.7 * novelty + 0.3 * (1 - popularity / 100); no item of neither pool and no
\* item twice, whatever the shuffle.
C9_SelectedSet ==
    eop = "select" =>
        LET n_explore == FFloor(FMulInt(epools.n, exploration_rate))
            n_exploit == epools.n - n_explore
            x == epools.exploit
            e == epools.explore
        IN  /\ Range(eresult) =
                 TopStable(x, [i \in 1..Len(x) |-> Get(x[i], "recommendation_score", 0)],
                           n_exploit)
                 \cup
                 TopStable(e, DRanks([i \in 1..Len(e) |-> DiversityScore(e[i])]),
                           n_explore)
            /\ Range(eresult) \subseteq Range(x) \cup Range(e)
            /\ Cardinality(Range(x \o e)) = Len(x \o e)
                  => Cardinality(Range(eresult)) = Len(eresult)

\* a tie at the cut: of two exploitation candidates of equal score the earlier
\* one is returned and the later one is not
C9_Witness ==
    /\ eop = "select"
    /\ Len(epools.exploit) = 2
    /\ epools.exploit[1].recommendation_score = epools.exploit[2].recommendation_score
    /\ epools.exploit[1] \in Range(eresult)
    /\ epools.exploit[2] \notin Range(eresult)
    /\ \E t \in Range(eresult) : t \in Range(epools.explore)

\* ----------------------------------------------------------- claims C7, C10
Track_a == [id |-> "t1", artists |-> ArtistsOf("X"), popularity |-> 90,
            recommendation_score |-> 90]

Track_b == [id |-> "t2", artists |-> ArtistsOf("Y"), popularity |-> 20,
            recommendation_score |-> 60]

Track_c == [id |-> "t3", artists |-> ArtistsOf("Y"), popularity |-> 20,
            recommendation_score |-> 50]

\* the call of the end-to-end scenario has returned: candidates a, b, c in
\* this order, and an empty history in force
ScenarioReturned ==
    /\ dop = "call"
    /\ dtracks = <<Track_a, Track_b, Track_c>>
    /\ user_history = <<>>

\* the returned item with the given id
Returned(id) == CHOOSE r \in Range(dresult) : r.id = id

\* the place of the item with the given id in a list
PlaceIn(ts, id) == CHOOSE i \in 1..Len(ts) : ts[i].id = id

\* C7 as stated: in the scenario a gets a popularity penalty above 0 and b is
\* returned above a, with a debiased_score greater than a's
C7_BRankedAboveA ==
    ScenarioReturned =>
        /\ DLess(DZero, Returned("t1").popularity_penalty)
        /\ DLess(Returned("t1").debiased_score, Returned("t2").debiased_score)
        /\ PlaceIn(dresult, "t2") < PlaceIn(dresult, "t1")

\* the float x is c / 10^4 to within 1 / 10^4
Near(x, c) == DLess(DLit(c - 1, 10000), x) /\ DLess(x, DLit(c + 1, 10000))

\* C7 amended: in the scenario a gets a popularity penalty above 0, of 0.15
\* up to rounding, the debiased scores are a = 1.1295, b = 0.744 and c = 0.62
\* up to rounding, and the items are returned in the order a, b, c (a stays
\* above b, with the greater debiased_score)
C7_AStaysAboveB ==
    ScenarioReturned =>
        /\ DLess(DZero, Returned("t1").popularity_penalty)
        /\ Near(Returned("t1").popularity_penalty, 1500)
        /\ Near(Returned("t1").debiased_score, 11295)
        /\ Near(Returned("t2").debiased_score, 7440)
        /\ Near(Returned("t3").debiased_score, 6200)
        /\ DLess(Returned("t2").debiased_score, Returned("t1").debiased_score)
        /\ [i \in 1..Len(dresult) |-> dresult[i].id] = <<"t1", "t2", "t3">>

C7_Witness ==
    /\ ScenarioReturned
    /\ Len(dresult) = 3
    /\ dhistory \in {NoneArg, [list |-> <<>>]}

\* a component of the fused score, or the base score where a stage left none
Component(r, key) ==
    IF key \in DOMAIN r THEN r[key] ELSE AsFloat(RecScore(r))

\* C10: a call of apply_full_debiasing returns the items it was given, each
\* with debiased_score = 0.3 * popularity_adjusted_score
\* + 0.3 * diversity_adjusted_score + 0.4 * novelty_adjusted_score (a missing
\* component replaced by the base score), in non-increasing debiased_score
\* order, items of equal debiased_score in their input order
C10_FusedScoreStableOrder ==
    dop = "call" =>
        /\ Len(dresult) = Len(dtracks)
        /\ {r.id : r \in Range(dresult)} = {t.id : t \in Range(dtracks)}
        /\ \A i \in 1..Len(dresult) :
               dresult[i].debiased_score =
                   DAdd(DAdd(DMul(Component(dresult[i], "popularity_adjusted_score"),
                                  DLit(3, 10)),
                             DMul(Component(dresult[i], "diversity_adjusted_score"),
                                  DLit(3, 10))),
                        DMul(Component(dresult[i], "novelty_adjusted_score"),
                             DLit(4, 10)))
        /\ \A i, j \in 1..Len(dresult) :
               i < j =>
                   /\ DLeq(dresult[j].debiased_score, dresult[i].debiased_score)
                   /\ dresult[i].debiased_score = dresult[j].debiased_score
                          => PlaceIn(dtracks, dresult[i].id)
                                 < PlaceIn(dtracks, dresult[j].id)

\* a call returned three items, two of equal score behind an item that was
\* last in the input
C10_Witness ==
    /\ dop = "call"
    /\ Len(dresult) = 3
    /\ dresult[1].id = "t3"
    /\ DLess(dresult[2].debiased_score, dresult[1].debiased_score)
    /\ dresult[2].debiased_score = dresult[3].debiased_score
    /\ "novelty_adjusted_score" \in DOMAIN dresult[1]

\* ---------------------------------------------------------------- claim C11
\* out holds the items of inp, one for one and in the same places, each
\* with every field of the input item as it was
SameItems(out, inp) ==
    /\ Len(out) = Len(inp)
    /\ \A i \in 1..Len(inp) :
           \A k \in DOMAIN inp[i] : k \in DOMAIN out[i] /\ out[i][k] = inp[i][k]

\* out holds the items of inp, each once, in some order
PermutationOf(out, inp) ==
    /\ Len(out) = Len(inp)
    /\ \A i \in 1..Len(inp) :
           \E j \in 1..Len(out) :
               /\ out[j].id = inp[i].id
               /\ \A k \in DOMAIN inp[i] :
                      k \in DOMAIN out[j] /\ out[j][k] = inp[i][k]

\* C11: on the list a call of apply_full_debiasing was given, each of the
\* popularity, diversity and novelty stages returns the same items (a missing
\* popularity read as 50, none removed, none added), and the call returns a
\* permutation of the list
C11_NoItemLost ==
    dop = "call" =>
        /\ SameItems(ApplyPopularityNormalization(dtracks), dtracks)
        /\ SameItems(ApplyPopularityPenalty(dtracks), dtracks)
        /\ SameItems(ApplyPopularityAwareRanking(dtracks), dtracks)
        /\ SameItems(ApplyDiversityBoost(dtracks), dtracks)
        /\ SameItems(ApplyGenreDiversity(dtracks), dtracks)
        /\ SameItems(ApplyTemporalDiversity(dtracks), dtracks)
        /\ SameItems(ApplyNoveltyBoost(dtracks, user_history), dtracks)
        /\ SameItems(ApplyArtistNovelty(dtracks), dtracks)
        /\ PermutationOf(dresult, dtracks)

\* a call on three items, one without a popularity, returned them in
\* another order, the item without popularity penalised as of popularity 50
C11_Witness ==
    /\ dop = "call"
    /\ Len(dtracks) = 3
    /\ \E i \in 1..3 :
           /\ "popularity" \notin DOMAIN dresult[i]
           /\ dresult[i].popularity_penalty = DZero
    /\ \E i \in 1..3 : dresult[i].id # dtracks[i].id

\* ---------------------------------------------------------------- claim C12
\* C12: a call of apply_full_debiasing made with no user_history (None) or
\* an empty one scores every item as fully novel, novelty_score = 1.5 (artist
\* novelty 1.0 and track novelty 1.0), whatever histories earlier calls on
\* the pipeline were given
C12_AbsentHistoryAllNovel ==
    dop = "call" /\ ~Truthy(dhistory) =>
        \A i \in 1..Len(dresult) :
            "novelty_score" \in DOMAIN dresult[i]
                => dresult[i].novelty_score = DLit(15, 10)

\* ---------------------------------------------------------------- claim C13
\* a fault occurs inside the stage while it processes some item of ts
StageFaults(name, ts) ==
    IF name \in {"apply_popularity_normalization", "apply_popularity_penalty",
                 "apply_popularity_aware_ranking"}
    THEN \E i \in 1..Len(ts) : PopularityRaises(ts[i])
    ELSE IF name \in {"apply_diversity_boost", "apply_novelty_boost",
                      "apply_artist_novelty"}
    THEN SomeArtistsRaise(ts)
    ELSE FALSE

\* C13: a stage in which a fault occurs on some item returns its input list
\* unmodified: no item, the ones before the faulty item included, has a
\* derived field added or changed
C13_FaultLeavesInputUnmodified ==
    dop = "stage" /\ dstage \in StageNames /\ StageFaults(dstage, dtracks)
        => dresult = dtracks

\* ---------------------------------------------------------------- claim C14
\* the item has no artists: the field is missing or an empty sequence
NoArtists(track) == "artists" \notin DOMAIN track \/ track.artists = <<>>

\* how many items of the list have no artists or the primary artist "unknown"
UnknownCount(ts) ==
    Cardinality({j \in 1..Len(ts) :
        NoArtists(ts[j]) \/ PrimaryArtist(ts[j]) = "unknown"})

\* C14: an item without artists counts as of artist "unknown":
\* apply_diversity_boost and apply_artist_novelty write their field on every
\* item of a list that holds such an item (1 / the number of "unknown" items
\* on the item itself), and apply_fairness_constraints completes such a list
\* without a fault
C14_NoArtistsIsUnknown ==
    /\ dop = "stage" /\ dstage = "apply_diversity_boost" =>
           \A i \in 1..Len(dtracks) :
               /\ "diversity_boost" \in DOMAIN dresult[i]
               /\ NoArtists(dtracks[i]) =>
                      dresult[i].diversity_boost
                          = DDivInt(DInt(1), UnknownCount(dtracks))
    /\ dop = "stage" /\ dstage = "apply_artist_novelty" =>
           \A i \in 1..Len(dtracks) :
               /\ "artist_novelty_boost" \in DOMAIN dresult[i]
               /\ NoArtists(dtracks[i]) =>
                      dresult[i].artist_novelty_boost
                          = DDivInt(DInt(1), UnknownCount(dtracks))
    /\ fpc = "done" /\ (\E i \in 1..Len(tracks) : NoArtists(tracks[i])) => ~fraised

\* ---------------------------------------------------------------- claim C15
\* C15: given an empty candidate list every method returns an empty list
\* and nothing is raised to the caller: each apply_* method, the quota for
\* any quota map, apply_full_debiasing, apply_fairness_constraints for any
\* max_recommendations (it never enters its loop), and select_recommendations
\* with two empty pools
C15_EmptyInEmptyOut ==
    /\ dop \in {"stage", "call"} /\ dtracks = <<>> => dresult = <<>>
    /\ fpc = "loop" => tracks # <<>>
    /\ fpc = "done" /\ tracks = <<>> => fresult = <<>>
    /\ eop = "select" /\ epools.exploit = <<>> /\ epools.explore = <<>>
           => eresult = <<>>

\* apply_fairness_constraints was given an empty list and a positive
\* max_recommendations, and has returned through its handler
C15_Witness ==
    /\ fpc = "done"
    /\ fraised
    /\ tracks = <<>>
    /\ max_recommendations > 0
    /\ fresult = <<>>

\* ---------------------------------------------------------------- claim C16
\* C16: whatever exploration_rate was before, constructor values outside
\* [0.1, 0.5] included, a call of update_exploration_rate that processed at
\* least one exploration-flagged event leaves exploration_rate in [0.1, 0.5]
C16_UpdateClamps ==
    eop = "update" /\ ExplorationSatisfaction(efeedback) # <<>>
        => FLeq(Dec(10), exploration_rate) /\ FLeq(exploration_rate, Dec(50))

\* ---------------------------------------------------------------- claim C17
\* C17: every call of evaluate_recommendations makes metrics_history one
\* longer by appending a snapshot that carries a timestamp, and leaves the
\* snapshots appended before unchanged and in place
C17_EvaluateAppendsOne ==
    [][vop' = "evaluate_recommendations" /\ vop # "evaluate_recommendations"
           => /\ Len(metrics_history') = Len(metrics_history) + 1
              /\ SubSeq(metrics_history', 1, Len(metrics_history)) = metrics_history
              /\ "timestamp" \in DOMAIN metrics_history'[Len(metrics_history')]]_vars

\* ---------------------------------------------------------------- claim C18
\* C18: after any sequence of record_user_feedback and get_evaluation_summary
\* calls, user_feedback and satisfaction_history hold one entry per
\* record_user_feedback call, in call order (timestamps never decrease and
\* the two lists agree entry by entry); no step removes, reorders or
\* rewrites an earlier entry, and a summary call leaves both lists as they are
C18_FeedbackAppendOnly ==
    /\ [](/\ Len(user_feedback) = vcount.feedback
          /\ Len(satisfaction_history) = vcount.feedback
          /\ \A i \in 1..Len(user_feedback) :
                 /\ satisfaction_history[i] =
                        SatisfactionData(user_feedback[i],
                                         user_feedback[i].timestamp)
                 /\ i > 1 => user_feedback[i - 1].timestamp
                                 <= user_feedback[i].timestamp)
    /\ [][/\ Len(user_feedback') >= Len(user_feedback)
          /\ SubSeq(user_feedback', 1, Len(user_feedback)) = user_feedback
          /\ Len(satisfaction_history') >= Len(satisfaction_history)
          /\ SubSeq(satisfaction_history', 1, Len(satisfaction_history))
                 = satisfaction_history
          /\ (vop' = "get_evaluation_summary"
                 => /\ user_feedback' = user_feedback
                    /\ satisfaction_history' = satisfaction_history)]_vars

\* ---------------------------------------------------------------- claim C19
\* C19: in a satisfaction summary positive_feedback_rate is the number of
\* windowed ratings above 0.7 divided by the number of windowed ratings, and
\* negative_feedback_rate the number below 0.3 divided by the same number
C19_FeedbackRatesAreShares ==
    vop = "get_satisfaction_summary" /\ vresult # EmptyDict
        => LET ratings == RatingsOf(Windowed(satisfaction_history,
                                             vargs.time_period))
           IN  /\ vresult.positive_feedback_rate
                      = Ratio(Len(PositiveRatings(ratings)), Len(ratings))
               /\ vresult.negative_feedback_rate
                      = Ratio(Len(NegativeRatings(ratings)), Len(ratings))

\* ---------------------------------------------------------------- claim C20
\* C20: the artist_diversity of an evaluation is the number of distinct
\* primary artists divided by the list length, and so at most 1 for a
\* non-empty list
C20_ArtistDiversityPrimary ==
    vop = "evaluate_recommendations" /\ "artist_diversity" \in DOMAIN vresult
        => /\ vresult.artist_diversity = ArtistDiversityPrimary(vargs.recommendations)
           /\ vargs.recommendations # <<>>
                  => FLeq(vresult.artist_diversity, FromInt(1))

\* ---------------------------------------------------------------- claim C21
\* C21: for every evaluator state reached by evaluate_recommendations and
\* record_user_feedback calls only, saving it, loading the saved document and
\* saving again writes the first document again, in all five collections: a
\* load that no load came before leaves the evaluator in a state whose saved
\* document is the file it has read.
C21_SaveLoadSaveSame ==
    [][(vop' = "load_evaluation_data" /\ vcount.load = 0 /\ vfile # NoFile)
           => SavedDocument' = vfile]_vars

\* the first load has read a file with evaluations and two rating tenths
C21_Witness ==
    /\ vop = "load_evaluation_data"
    /\ vcount.load = 1
    /\ vfile # NoFile
    /\ Len(vfile.metrics_history) = 1
    /\ Len(vfile.satisfaction_data.rating_distribution) >= 2
    /\ rating_distribution # <<>>
    /\ SavedDocument = vfile

\* ---------------------------------------------------------------- claim C22
\* a call of apply_popularity_penalty has returned
PenaltyReturned == dop = "stage" /\ dstage = "apply_popularity_penalty"

\* the item i of the list handed to the call has popularity 100
AtFullPopularity(i) == Get(dtracks[i], "popularity", 50) = 100

\* the third tier's penalty at popularity 100, strength * (1.0 - 0.8) * 5
ThirdTierAtFull ==
    DMul(DMul(dstrength, DSub(DInt(1), DLit(8, 10))), DInt(5))

\* the base score of the item i of the list handed to the call, as a float
BaseScore(i) == AsFloat(RecScore(dtracks[i]))

\* the loop of the call has come to the item i: no item up to it has a
\* popularity that is not a number
Reached(i) == \A j \in 1..i : ~PopularityRaises(dtracks[j])

\* the call has written the penalty fields of the item i
Penalised(i) ==
    {"popularity_penalty", "popularity_adjusted_score"} \subseteq DOMAIN dresult[i]

\* 1 - penalty, in floats, for the third tier's penalty at popularity 100
KeptShare == DSub(DInt(1), ThirdTierAtFull)

\* C22 as stated: for any item with popularity 100 and a penalty strength
\* above 0, apply_popularity_penalty applies the third tier (penalty =
\* strength * (1.0 - 0.8) * 5 = strength) and popularity_adjusted_score is
\* strictly less than the item's base score, for every base score the item may
\* carry.
C22_AdjustedBelowBase ==
    PenaltyReturned /\ dstrength # DZero =>
        \A i \in 1..Len(dtracks) :
            AtFullPopularity(i) =>
                /\ Penalised(i)
                /\ dresult[i].popularity_penalty = ThirdTierAtFull
                /\ DLess(dresult[i].popularity_adjusted_score, BaseScore(i))

\* C22, amended: for any item with popularity 100 that the loop of
\* apply_popularity_penalty comes to, and a penalty strength above 0, the
\* third tier applies (penalty = strength * (1.0 - 0.8) * 5, in floats) and
\* popularity_adjusted_score is base score * (1 - penalty), in floats. It is
\* strictly less than the base score when the base score is positive and
\* 1 - penalty is below 1 in floats; it is the base score when the base score
\* is 0, which an item without a recommendation_score carries, or when the
\* strength is so small that 1 - penalty rounds to 1. An item that follows
\* one whose popularity is not a number is returned as it was handed in.
C22_AdjustedBelowPositiveBase ==
    PenaltyReturned /\ dstrength # DZero =>
        \A i \in 1..Len(dtracks) :
            AtFullPopularity(i) =>
                IF Reached(i)
                THEN /\ Penalised(i)
                     /\ dresult[i].popularity_penalty = ThirdTierAtFull
                     /\ dresult[i].popularity_adjusted_score
                            = DMul(BaseScore(i), KeptShare)
                     /\ RecScore(dtracks[i]) > 0 /\ DLess(KeptShare, DInt(1)) =>
                            DLess(dresult[i].popularity_adjusted_score,
                                  BaseScore(i))
                     /\ RecScore(dtracks[i]) = 0 \/ KeptShare = DInt(1) =>
                            dresult[i].popularity_adjusted_score = BaseScore(i)
                ELSE dresult[i] = dtracks[i]

\* a call with 2.0 ** -53, among the smallest strengths that 1 - penalty
\* keeps, has penalised an item of popularity 100 and a positive score,
\* beside one that carries no score
C22_Witness ==
    /\ PenaltyReturned
    /\ dstrength = PowerOfTwo(0 - 53)
    /\ DLess(KeptShare, DInt(1))
    /\ \E i, j \in 1..Len(dtracks) :
           /\ AtFullPopularity(i) /\ RecScore(dtracks[i]) = 50
           /\ DLess(dresult[i].popularity_adjusted_score, BaseScore(i))
           /\ AtFullPopularity(j)
           /\ "recommendation_score" \notin DOMAIN dtracks[j]
           /\ dresult[j].popularity_adjusted_score = DZero

\* a call with 2.0 ** -60 has left the positive score of an item of
\* popularity 100 as it was: 1 - penalty is 1.0
AbsorbedPenaltyReached ==
    /\ PenaltyReturned
    /\ dstrength = PowerOfTwo(0 - 60)
    /\ KeptShare = DInt(1)
    /\ \E i \in 1..Len(dtracks) :
           /\ AtFullPopularity(i) /\ RecScore(dtracks[i]) = 50
           /\ dresult[i].popularity_penalty # DZero
           /\ dresult[i].popularity_adjusted_score = BaseScore(i)

\* a call with a strength above 0 has returned an item of popularity 100
\* that follows an item whose popularity is not a number
UnreachedItemReturned ==
    /\ PenaltyReturned
    /\ dstrength = DefaultStrength
    /\ \E i \in 1..Len(dtracks) :
           /\ AtFullPopularity(i) /\ ~Reached(i)
           /\ "popularity_adjusted_score" \notin DOMAIN dresult[i]

\* ---------------------------------------------------------------- claim C26
\* the popularity of the item i of the list handed to the call
PopularityAt(i) == Get(dtracks[i], "popularity", 50)

\* C26: the tiered penalty is continuous at both tier boundaries: at
\* popularity 60 the penalty is the second-tier formula's value (0), at
\* popularity 80 it is the third-tier formula's value strength * (0.8 - 0.8) * 5,
\* and the penalty apply_popularity_penalty computes does not drop when the
\* popularity rises from 80 to 81.
C26_PenaltyContinuous ==
    PenaltyReturned =>
        \A i \in {k \in 1..Len(dtracks) : Penalised(k)} :
            /\ PopularityAt(i) = 60 =>
                   dresult[i].popularity_penalty
                       = DMul(DMul(dstrength, DSub(DLit(6, 10), DLit(6, 10))),
                              DLit(25, 10))
            /\ PopularityAt(i) = 80 =>
                   dresult[i].popularity_penalty
                       = DMul(DMul(dstrength, DSub(DLit(8, 10), DLit(8, 10))),
                              DInt(5))
            /\ \A j \in {k \in 1..Len(dtracks) : Penalised(k)} :
                   PopularityAt(i) = 80 /\ PopularityAt(j) = 81 =>
                       DLeq(dresult[i].popularity_penalty,
                            dresult[j].popularity_penalty)

\* ---------------------------------------------------------------- claim C23
\* the diversity_boost values of the first n items of the returned list, added
\* up in list order
RECURSIVE BoostSum(_)
BoostSum(n) ==
    IF n = 0 THEN DZero ELSE DAdd(BoostSum(n - 1), dresult[n].diversity_boost)

\* the primary artists of the list handed to the call
ArtistsOfCall == {SpecArtist(dtracks[i]) : i \in 1..Len(dtracks)}

\* C23: after apply_diversity_boost on a candidate set with k distinct primary
\* artists having c_1..c_k items, every item of artist i has diversity_boost
\* exactly 1/c_i, so the diversity_boost values of the set add up to k.
C23_BoostsAddUpToArtists ==
    dop = "stage" /\ dstage = "apply_diversity_boost" =>
        /\ \A i \in 1..Len(dtracks) :
               /\ "diversity_boost" \in DOMAIN dresult[i]
               /\ dresult[i].diversity_boost
                      = DDivInt(DInt(1), CountOf(dtracks, SpecArtist(dtracks[i])))
        /\ (\A i \in 1..Len(dtracks) : "diversity_boost" \in DOMAIN dresult[i])
               => BoostSum(Len(dtracks)) = DInt(Cardinality(ArtistsOfCall))

\* ---------------------------------------------------------------- claim C24
\* C24: for two sessions that each own their own pipeline, selector and
\* evaluator, under every interleaving of the sessions' calls the
\* exploration_rate, the histories and the novelty user history of each
\* session are what the session's calls produce when run alone: no call of
\* one session reads or writes state the other owns.
C24_SessionsIndependent ==
    \A s \in DOMAIN sessions :
        SessionContents(heap, sessions[s])
            = SessionContents(RunAlone(slog[s]).heap, RunAlone(slog[s]).session)

\* the dict objects in the user_feedback list of a session
FeedbackObjects(s) ==
    {entry.obj : entry \in FeedbackEntries(heap[sessions[s].user_feedback])}

\* when no feedback dict object was handed to both sessions, each session has
\* what its calls produce when run alone
IndependentWithOwnDicts ==
    FeedbackObjects(1) \cap FeedbackObjects(2) = {} => C24_SessionsIndependent

\* ---------------------------------------------------------------- claim C30
\* every thread has returned from update_exploration_rate
ThreadsDone == \A t \in DOMAIN threads : threads[t].pc = "done"

\* the rate is in [0.1, 0.5]
RateInRange == FLeq(Dec(10), exploration_rate) /\ FLeq(exploration_rate, Dec(50))

\* how far the rate is from the rate before the threads started
RateDrift ==
    FSub(FMax(exploration_rate, rate0), FMin(exploration_rate, rate0))

\* the rates one clamped step of 0.05 away from the rates of a set
OneStepFrom(rates) ==
    rates \cup {RaisedRate(r) : r \in rates} \cup {LoweredRate(r) : r \in rates}

\* C30 as stated: when two update_exploration_rate calls on one selector
\* interleave at the granularity of the read and the write of
\* exploration_rate, the rate initially in [0.1, 0.5], the rate is in
\* [0.1, 0.5] in every intermediate and final state and the final rate differs
\* from the initial rate by at most 0.10.
C30_DriftAtMostTenth ==
    threads # <<>> =>
        /\ RateInRange
        /\ ThreadsDone => FLeq(RateDrift, Dec(10))

\* C30, amended: under the same interleavings the rate is in [0.1, 0.5] in
\* every intermediate and final state, and the final rate is the initial rate
\* after at most two clamped steps of 0.05, which is 0.10 away from it up to
\* the rounding of the doubles (less than 0.101).
C30_DriftAtMostTwoSteps ==
    threads # <<>> =>
        /\ RateInRange
        /\ ThreadsDone =>
               /\ exploration_rate \in OneStepFrom(OneStepFrom({rate0}))
               /\ FLess(RateDrift, Milli(101))

\* both threads have read the initial rate 0.11 before either wrote, and both
\* have written: one update is lost
C30_Witness ==
    /\ threads # <<>>
    /\ ThreadsDone
    /\ rate0 = Dec(11)
    /\ \A t \in DOMAIN threads :
           threads[t].branch = "raise" /\ threads[t].read = rate0
    /\ exploration_rate = RaisedRate(rate0)

\* ---------------------------------------------------------------- claim C25
\* the call of apply_fairness_constraints was made on candidates that carry a
\* debiased_score, and has returned
RankedCallReturned ==
    /\ fpc = "done"
    /\ tracks # <<>>
    /\ \A i \in 1..Len(tracks) : "debiased_score" \in DOMAIN tracks[i]

\* C25: apply_fairness_constraints consumes each artist's items in descending
\* debiased_score order: the items of an artist in the result have a
\* debiased_score no lower than any item of that artist left out, also when
\* the debiased_score order differs from the order of the relevance scores.
C25_ConsumesByDebiasedScore ==
    RankedCallReturned =>
        \A i \in 1..Len(fresult), j \in 1..Len(tracks) :
            /\ SpecArtist(tracks[j]) = SpecArtist(fresult[i])
            /\ \A k \in 1..Len(fresult) : fresult[k].id # tracks[j].id
            => DLeq(tracks[j].debiased_score, fresult[i].debiased_score)

\* ---------------------------------------------------------------- claim C29
\* C29: for every input list of items with distinct ids, the result of
\* apply_fairness_constraints holds no item twice and only items of the input
\* list, and no step of the call changes the input list (its length, order
\* and elements).
C29_ResultFromInputOnce ==
    /\ [](fpc = "done" =>
            /\ \A i, j \in 1..Len(fresult) :
                   fresult[i].id = fresult[j].id => i = j
            /\ \A i \in 1..Len(fresult) :
                   \E j \in 1..Len(tracks) : fresult[i] = tracks[j])
    /\ [][(fpc \in {"call", "loop"}) => (tracks' = tracks)]_vars

\* a call has returned three of four candidates, two of them of one artist
C29_Witness ==
    /\ fpc = "done"
    /\ ~fraised
    /\ Len(tracks) = 4
    /\ Len(fresult) = 3
    /\ \E i, j \in 1..Len(fresult) :
           i # j /\ PrimaryArtist(fresult[i]) = PrimaryArtist(fresult[j])

\* ---------------------------------------------------------------- claim C27
\* C27: no stage reads a field another stage has written, so a second run of
\* apply_full_debiasing on its own output with the same history returns the
\* items with the derived field values and the debiased_score they had, in
\* the order they were in.
C27_SecondRunSame == dop = "again" => dresult = dtracks

\* what a summary call reads: the entries of the four histories in its window
WindowsOf(time_period) ==
    <<Windowed(metrics_history, time_period),
      Windowed(diversity_history, time_period),
      Windowed(novelty_history, time_period),
      Windowed(satisfaction_history, time_period)>>

\* the collections of the evaluator and its trackers
Collections ==
    <<metrics_history, user_feedback, diversity_history, novelty_history,
      diversity_lists, novelty_lists, holdings, satisfaction_history,
      rating_distribution, feedback_analysis>>

\* a step in which a summary method is called or called once more
SummaryStep ==
    /\ vop' \in SummaryNames
    /\ vop \in {"init", "idle"} \/ "before" \in DOMAIN vargs'

\* C28 as stated: no summary call changes a collection, and a summary call
\* made once more, with no evaluation or feedback in between, returns what
\* the first call returned
C28_ReadOnlySameAgain ==
    /\ [](vop \in SummaryNames /\ "before" \in DOMAIN vargs
              => vresult = vargs.before)
    /\ [][SummaryStep => Collections' = Collections]_vars

\* C28 amended: no summary call changes a collection, and a summary call made
\* once more, with no evaluation or feedback in between, returns what the
\* first call returned when the same entries are in its window
C28_ReadOnlySameWindowSame ==
    [][SummaryStep =>
           /\ Collections' = Collections
           /\ ("before" \in DOMAIN vargs'
                  /\ WindowsOf(vargs.time_period)' = WindowsOf(vargs.time_period))
                 => (vresult' = vargs'.before)]_vars

\* the diversity summary of two evaluations, with its trends, has been read
\* twice, days apart, with both evaluations in the window
C28_Witness ==
    /\ vop = "get_diversity_summary"
    /\ "before" \in DOMAIN vargs
    /\ now > 0
    /\ Len(Windowed(diversity_history, vargs.time_period)) = 2
    /\ vresult = vargs.before
    /\ vresult.trend_artist_diversity # FZero

\* load_data(d), calculate_diversity_metrics and load_data(d) once more have
\* been called on the diversity tracker: its diversity_history is d's list,
\* which holds the entry of the call in between
CallerListKept ==
    /\ vop = "diversity_load_data"
    /\ held.diversity_history = 1
    /\ diversity_history = caller_lists[1]
    /\ Len(diversity_history) = 2

\* a list the caller has put under two keys of feedback_analysis has taken
\* one rating, which both keys show
SharedListUpdated ==
    /\ DictGet(held.feedback_analysis, "like", 0) = 8
    /\ DictGet(held.feedback_analysis, "skip", 0) = 8
    /\ Len(caller_lists[8]) = 2
    /\ DictGet(feedback_analysis, "like", <<>>) = caller_lists[8]
    /\ DictGet(feedback_analysis, "skip", <<>>) = caller_lists[8]

====
